---- MODULE Spec2Model ----
(***************************************************************************)
(* A model of the Dolmenwood ETL scripts (packages/etl/scripts):           *)
(*   extract_dmb.py           Monster Book extractor                       *)
(*   extract_dcb_treasure.py  Campaign Book treasure-table extractor       *)
(*   extract_raw_text.py      raw text dump                                *)
(*                                                                         *)
(* Text is a TLA+ string; SubSeq, Len and \o work on strings character by  *)
(* character.  Characters outside ASCII are written with ASCII stand-ins   *)
(* (EN_DASH, EM_DASH, SOFT_HYPHEN, ...).  Point sizes are in tenths of a   *)
(* point (85 is 8.5pt), page coordinates in tenths of a point as well.     *)
(* An optional value (Python None / a value) is a sequence of length at    *)
(* most one: None is <<>>, a value v is <<v>>.                             *)
(***************************************************************************)
EXTENDS Integers, Sequences, FiniteSets, TLC

VARIABLES
    pc,           \* a function call under study: "call", then "return"
    args,         \* its arguments
    ret,          \* its result
    locals,       \* its local variables, between two steps of its loop
    cs_pos,       \* collect_spans: the loop the iteration stands in
    page_read,    \* collect_spans: the spans the page has reported so far
    seen_bboxes,  \* collect_spans: seen_bboxes
    cs_spans,     \* collect_spans: spans
    fs            \* a run of a tool: the directories and files on disk, and
                  \* the file operations the run has made

callVars == <<pc, args, ret, locals>>

collectVars == <<cs_pos, page_read, seen_bboxes, cs_spans>>

vars == <<callVars, collectVars, fs>>

\* the state of every part of the program other than `part`, which is not
\* running
Idle(part) ==
    /\ IF part \in {"call", "run"} THEN TRUE
       ELSE pc = "idle" /\ args = <<>> /\ ret = <<>> /\ locals = <<>>
    /\ IF part = "collect" THEN TRUE
       ELSE cs_pos = "idle" /\ page_read = <<>> /\ seen_bboxes = {}
            /\ cs_spans = <<>>
    /\ IF part = "run" THEN TRUE ELSE fs = <<>>

\* a step of `part` leaves every other part alone
Frame(part) ==
    /\ IF part \in {"call", "run"} THEN TRUE ELSE UNCHANGED callVars
    /\ IF part = "collect" THEN TRUE ELSE UNCHANGED collectVars
    /\ IF part = "run" THEN TRUE ELSE UNCHANGED fs

-----------------------------------------------------------------------------
(* Characters and Python string methods                                    *)

EN_DASH == "~"        \* stands for U+2013
EM_DASH == "_"        \* stands for U+2014
SOFT_HYPHEN == "^"    \* stands for U+00AD
RIGHT_QUOTE == "|"    \* stands for U+2019
TIMES == "x"          \* stands for U+00D7

None == <<>>
Some(v) == <<v>>

Digits == {"0", "1", "2", "3", "4", "5", "6", "7", "8", "9"}

Char(s, i) == SubSeq(s, i, i)

IsDigit(c) == c \in Digits

IsSpace(c) == c = " "

DigitVal(c) ==
    CASE c = "0" -> 0 [] c = "1" -> 1 [] c = "2" -> 2 [] c = "3" -> 3
      [] c = "4" -> 4 [] c = "5" -> 5 [] c = "6" -> 6 [] c = "7" -> 7
      [] c = "8" -> 8 [] c = "9" -> 9

\* str.isdigit(): non-empty and every character a digit
isdigit(s) == Len(s) > 0 /\ \A i \in 1..Len(s) : IsDigit(Char(s, i))

RECURSIVE lstrip(_)
lstrip(s) == IF Len(s) > 0 /\ IsSpace(Head(s)) THEN lstrip(Tail(s)) ELSE s

RECURSIVE rstrip(_)
rstrip(s) ==
    IF Len(s) > 0 /\ IsSpace(Char(s, Len(s)))
    THEN rstrip(SubSeq(s, 1, Len(s) - 1)) ELSE s

\* str.strip()
strip(s) == rstrip(lstrip(s))

\* str.rstrip(chars) for a single character
RECURSIVE rstrip_char(_, _)
rstrip_char(s, c) ==
    IF Len(s) > 0 /\ Char(s, Len(s)) = c
    THEN rstrip_char(SubSeq(s, 1, Len(s) - 1), c) ELSE s

\* str.replace(old, new) for a single character old
RECURSIVE replace(_, _, _)
replace(s, old, new) ==
    IF Len(s) = 0 THEN ""
    ELSE (IF Head(s) = old THEN new ELSE Head(s)) \o replace(Tail(s), old, new)

\* str.startswith(prefix)
startswith(s, prefix) ==
    Len(s) >= Len(prefix) /\ SubSeq(s, 1, Len(prefix)) = prefix

\* the Python test `sub in s`
Contains(s, sub) ==
    \E i \in 1..(Len(s) - Len(sub) + 1) : SubSeq(s, i, i + Len(sub) - 1) = sub

\* str.split(sep) for a single character sep: the list of parts
RECURSIVE split(_, _)
split(s, sep) ==
    IF \A i \in 1..Len(s) : Char(s, i) # sep THEN <<s>>
    ELSE LET k == CHOOSE i \in 1..Len(s) :
                     Char(s, i) = sep /\ \A j \in 1..(i - 1) : Char(s, j) # sep
         IN  <<SubSeq(s, 1, k - 1)>> \o split(SubSeq(s, k + 1, Len(s)), sep)

\* " ".join(parts)
RECURSIVE join(_)
join(parts) ==
    IF Len(parts) = 0 THEN ""
    ELSE IF Len(parts) = 1 THEN parts[1]
    ELSE parts[1] \o " " \o join(Tail(parts))

\* the value of a non-empty digit string
RECURSIVE DecimalValue(_)
DecimalValue(s) ==
    IF Len(s) = 0 THEN 0
    ELSE 10 * DecimalValue(SubSeq(s, 1, Len(s) - 1)) + DigitVal(Char(s, Len(s)))

\* int(s): surrounding whitespace is ignored; anything but a digit run
\* raises ValueError (no sign or underscore occurs in the texts modelled)
int_raises(s) == ~isdigit(strip(s))
int(s) == DecimalValue(strip(s))

\* the length of the longest prefix of s made of characters of `class`
RECURSIVE PrefixLen(_, _)
PrefixLen(s, class) ==
    IF Len(s) > 0 /\ Head(s) \in class THEN 1 + PrefixLen(Tail(s), class) ELSE 0

\* all strings over `alphabet` of length at most n
RECURSIVE Strings(_, _)
Strings(alphabet, n) ==
    IF n = 0 THEN {""}
    ELSE LET shorter == Strings(alphabet, n - 1)
         IN  shorter \cup {s \o c : s \in shorter, c \in alphabet}

\* all sequences over S of length at most n
RECURSIVE SeqsUpTo(_, _)
SeqsUpTo(S, n) ==
    IF n = 0 THEN {<<>>}
    ELSE LET shorter == SeqsUpTo(S, n - 1)
         IN  shorter \cup {Append(s, e) : s \in shorter, e \in S}

-----------------------------------------------------------------------------
(* extract_dcb_treasure.py: parse helpers                                  *)

DASHES == {EN_DASH, "-", EM_DASH}

\* parse_average_value without its replace(" ", "")
parse_average_value_keeps_spaces(text) ==
    LET t == replace(strip(text), ",", "")
        n == PrefixLen(t, Digits \cup {","})
    IN  IF n >= 1 /\ SubSeq(t, n + 1, Len(t)) = "gp"
        THEN Some(DecimalValue(SubSeq(t, 1, n)))
        ELSE None

\* parse_average_value: Optional[int]
parse_average_value(text) ==
    LET t == replace(replace(strip(text), ",", ""), " ", "")
        n == PrefixLen(t, Digits \cup {","})
    IN  IF n >= 1 /\ SubSeq(t, n + 1, Len(t)) = "gp"
        THEN Some(int(SubSeq(t, 1, n)))
        ELSE None

\* parse_roll_range: (min, max), or ValueError out of int()
Raised == [raised |-> TRUE]
Returned(v) == [raised |-> FALSE, value |-> v]

\* parse_roll_range reading an upper bound 00 as the number 0
parse_roll_range_zero(text0) ==
    LET text == replace(text0, EN_DASH, "-")
        parts == split(text, "-")
    IN  IF Len(parts) = 2
        THEN IF int_raises(parts[1]) \/ int_raises(parts[2]) THEN Raised
             ELSE Returned(<<int(parts[1]), int(parts[2])>>)
        ELSE IF int_raises(strip(text)) THEN Raised
        ELSE Returned(<<int(strip(text)), int(strip(text))>>)

parse_roll_range(text0) ==
    LET text == replace(text0, EN_DASH, "-")
        parts == split(text, "-")
    IN  IF Len(parts) = 2
        THEN LET hi_str == strip(parts[2])
             IN  IF int_raises(parts[1]) THEN Raised
                 ELSE IF hi_str = "00" THEN Returned(<<int(parts[1]), 100>>)
                 ELSE IF int_raises(hi_str) THEN Raised
                 ELSE Returned(<<int(parts[1]), int(hi_str)>>)
        ELSE IF strip(text) = "00" THEN Returned(<<100, 100>>)
        ELSE IF int_raises(strip(text)) THEN Raised
        ELSE Returned(<<int(strip(text)), int(strip(text))>>)

\* re.match(r'^\d+$', text)
match_number(text) == isdigit(text)

\* re.match(r'^\d+[–\-]\d+$', text)
match_range(text) ==
    \E k \in 2..(Len(text) - 1) :
        /\ Char(text, k) \in {EN_DASH, "-"}
        /\ isdigit(SubSeq(text, 1, k - 1))
        /\ isdigit(SubSeq(text, k + 1, Len(text)))

\* re.match(r'^\d+[–\-]?\d*$', text)
match_roll_label(text) ==
    LET n == PrefixLen(text, Digits)
        rest == SubSeq(text, n + 1, Len(text))
    IN  IF n = 0 THEN FALSE
        ELSE IF rest = "" THEN TRUE
        ELSE IF Head(rest) \notin {EN_DASH, "-"} THEN FALSE
        ELSE IF Tail(rest) = "" THEN TRUE
        ELSE isdigit(Tail(rest))

\* re.match(r'^C\d+$', text), and the same for R and M
match_type_code(letter, text) ==
    Len(text) >= 2 /\ Head(text) = letter /\ isdigit(Tail(text))

-----------------------------------------------------------------------------
(* extract_dcb_treasure.py: _parse_coins_row and _parse_riches_row         *)

\* re.match(r'^(\d+)%$', token)
match_chance(token) ==
    Len(token) >= 2 /\ Char(token, Len(token)) = "%"
                    /\ isdigit(SubSeq(token, 1, Len(token) - 1))

\* re.match(r'^(\d+)%\s+(.+)', token): the groups, or <<>> for no match.
\* \s+ is greedy; it gives one space back when nothing else follows it.
chance_quantity_groups(token) ==
    LET n == PrefixLen(token, Digits)
        after == SubSeq(token, n + 2, Len(token))
        w == PrefixLen(after, {" "})
    IN  IF n = 0 \/ Char(token, n + 1) # "%" \/ w = 0 THEN <<>>
        ELSE IF w < Len(after)
        THEN <<SubSeq(token, 1, n), SubSeq(after, w + 1, Len(after))>>
        ELSE IF w >= 2 THEN <<SubSeq(token, 1, n), " ">>
        ELSE <<>>

\* hoard_column taking a dash as one cell, never the pair
hoard_column_single_dash(remaining, idx) ==
    IF idx >= Len(remaining) THEN [value |-> None, idx |-> idx]
    ELSE LET token == remaining[idx + 1]
         IN  IF token \in DASHES THEN [value |-> None, idx |-> idx + 1]
             ELSE IF match_chance(token)
             THEN [value |-> Some([chance |->
                                       int(SubSeq(token, 1, Len(token) - 1)),
                                   quantity |->
                                       strip(IF idx + 1 < Len(remaining)
                                             THEN remaining[idx + 2]
                                             ELSE "")]),
                   idx |-> idx + 2]
             ELSE [value |-> Some([quantity |-> token]), idx |-> idx + 1]

\* One pass of the loop `for coin_type in coin_types` (idx counts from 0):
\* the value stored for the sub-category and the idx it leaves.
hoard_column(remaining, idx) ==
    IF idx >= Len(remaining) THEN [value |-> None, idx |-> idx]
    ELSE LET token == remaining[idx + 1]
             m == chance_quantity_groups(token)
         IN  IF token \in DASHES
             THEN [value |-> None,
                   idx |-> IF idx + 1 < Len(remaining)
                              /\ remaining[idx + 2] \in DASHES
                           THEN idx + 2 ELSE idx + 1]
             ELSE IF m # <<>>
             THEN [value |-> Some([chance |-> int(m[1]),
                                   quantity |-> strip(m[2])]),
                   idx |-> idx + 1]
             ELSE IF match_chance(token)
             THEN [value |-> Some([chance |->
                                       int(SubSeq(token, 1, Len(token) - 1)),
                                   quantity |->
                                       strip(IF idx + 1 < Len(remaining)
                                             THEN remaining[idx + 2]
                                             ELSE "")]),
                   idx |-> idx + 2]
             ELSE [value |-> Some([quantity |-> token]), idx |-> idx + 1]

\* the whole loop over `types`, from idx: the entry and the final idx
RECURSIVE hoard_columns(_, _, _, _)
hoard_columns(entry, remaining, idx, types) ==
    IF types = <<>> THEN [entry |-> entry, idx |-> idx]
    ELSE LET col == hoard_column(remaining, idx)
         IN  hoard_columns(entry @@ (Head(types) :> col.value), remaining,
                           col.idx, Tail(types))

\* cells[-1] if cells else ""
last_or_empty(cells) == IF cells # <<>> THEN cells[Len(cells)] ELSE ""

\* cells[:-1]
all_but_last(cells) == SubSeq(cells, 1, Len(cells) - 1)

coin_types == <<"copper", "silver", "gold", "pellucidium">>

riches_types == <<"gems", "artObjects">>

\* _parse_coins_row with remaining = cells, the final cell included
_parse_coins_row_all_cells(label, cells) ==
    hoard_columns([type |-> label,
                   averageValue |-> parse_average_value(last_or_empty(cells))],
                  cells, 0, coin_types).entry

_parse_coins_row(label, cells) ==
    hoard_columns([type |-> label,
                   averageValue |-> parse_average_value(last_or_empty(cells))],
                  all_but_last(cells), 0, coin_types).entry

_parse_riches_row(label, cells) ==
    hoard_columns([type |-> label,
                   averageValue |-> parse_average_value(last_or_empty(cells))],
                  all_but_last(cells), 0, riches_types).entry

-----------------------------------------------------------------------------
(* extract_dcb_treasure.py: _parse_generation_table_rows                   *)

\* the local state of _parse_generation_table_rows
GenInit == [rows |-> <<>>, current_label |-> None, current_cells |-> <<>>]

\* the groups (\d+) of r'^(\d+)[–\-](\d+)$'
RangeGroups(label) ==
    LET k == CHOOSE i \in 2..(Len(label) - 1) :
                 /\ Char(label, i) \in {EN_DASH, "-"}
                 /\ isdigit(SubSeq(label, 1, i - 1))
                 /\ isdigit(SubSeq(label, i + 1, Len(label)))
    IN  <<SubSeq(label, 1, k - 1), SubSeq(label, k + 1, Len(label))>>

\* _parse_generation_table_rows.flush
generation_flush(st) ==
    LET emitted ==
            IF st.current_label # None /\ st.current_cells # <<>>
            THEN LET label == st.current_label[1]
                 IN  IF match_range(label)
                     THEN LET g == RangeGroups(label)
                              hi == IF g[2] = "00" THEN 100 ELSE int(g[2])
                          IN  <<[min |-> int(g[1]), max |-> hi,
                                 cells |-> st.current_cells]>>
                     ELSE IF match_number(label)
                     THEN <<[roll |-> int(label), cells |-> st.current_cells]>>
                     ELSE <<>>
            ELSE <<>>
    IN  [rows |-> st.rows \o emitted, current_label |-> None,
         current_cells |-> <<>>]

-----------------------------------------------------------------------------
(* Specification SpecAvg: parse_average_value on every short text          *)

MaxAvgLen == 4

AvgAlphabet == {"0", "1", "6", ",", " ", "g", "p", "a"}

AvgExamples == {"25gp", "1,600gp", "1,600 gp", "n/a", "0gp", "1,600", "25 g p"}

AvgInputs == Strings(AvgAlphabet, MaxAvgLen) \cup AvgExamples

InitAvg ==
    /\ Idle("call")
    /\ pc = "call"
    /\ args \in {[text |-> t] : t \in AvgInputs}
    /\ ret = None
    /\ locals = <<>>

ParseAverageValue ==
    /\ pc = "call"
    /\ ret' = parse_average_value(args.text)
    /\ pc' = "return"
    /\ UNCHANGED <<args, locals>>
    /\ Frame("call")

NextAvg == ParseAverageValue

SpecAvg == InitAvg /\ [][NextAvg]_vars

\* s without its commas and spaces
RECURSIVE WithoutCommasSpaces(_)
WithoutCommasSpaces(s) ==
    IF Len(s) = 0 THEN ""
    ELSE IF Head(s) \in {",", " "} THEN WithoutCommasSpaces(Tail(s))
    ELSE Head(s) \o WithoutCommasSpaces(Tail(s))

\* t is a non-empty digit run followed by gp and nothing else
IsGpAmount(t) ==
    Len(t) >= 3 /\ SubSeq(t, Len(t) - 1, Len(t)) = "gp"
                /\ \A i \in 1..(Len(t) - 2) : Char(t, i) \in Digits

\* the int() call of parse_average_value raises
AverageValueRaises(text) ==
    LET t == replace(replace(strip(text), ",", ""), " ", "")
        n == PrefixLen(t, Digits \cup {","})
    IN  n >= 1 /\ SubSeq(t, n + 1, Len(t)) = "gp" /\ int_raises(SubSeq(t, 1, n))

\* C9: parse_average_value returns n exactly when the text, commas and
\* spaces removed, is a non-empty digit run spelling n followed by gp and
\* nothing else; every other text gives the absent value; no text raises.
C9_AverageValue ==
    pc = "return" =>
        LET t == WithoutCommasSpaces(args.text)
        IN  /\ ~AverageValueRaises(args.text)
            /\ IsGpAmount(t) =>
                   ret = Some(DecimalValue(SubSeq(t, 1, Len(t) - 2)))
            /\ ~IsGpAmount(t) => ret = None
            /\ args.text = "25gp" => ret = Some(25)
            /\ args.text \in {"1,600gp", "1,600 gp"} => ret = Some(1600)
            /\ args.text = "n/a" => ret = None

C9_Witness == pc = "return" /\ args.text = "1,600 gp" /\ ret = Some(1600)

-----------------------------------------------------------------------------
(* Specification SpecRoll: roll labels through the range-keyed parsers     *)

MaxRollLen == 5

RollAlphabet == {"0", "1", "7", "-", "~", " "}

RollExamples == {"01-05", "98-00", "00", "7", "01~05", "98~00"}

RollInputs == Strings(RollAlphabet, MaxRollLen) \cup RollExamples

InitRoll ==
    /\ Idle("call")
    /\ pc = "call"
    /\ args \in {[text |-> t] : t \in RollInputs}
    /\ ret = None
    /\ locals = <<>>

ParseRollRange ==
    /\ pc = "call"
    /\ ret' = [fn |-> "parse_roll_range", value |-> parse_roll_range(args.text)]
    /\ pc' = "return"
    /\ UNCHANGED <<args, locals>>
    /\ Frame("call")

\* a row label accepted by _parse_generation_table_rows, one cell, flush
GenerationFlush ==
    /\ pc = "call"
    /\ match_roll_label(args.text)
    /\ ret' = [fn |-> "generation_flush",
               value |-> generation_flush([rows |-> <<>>,
                                           current_label |-> Some(args.text),
                                           current_cells |-> <<"cell">>]).rows]
    /\ pc' = "return"
    /\ UNCHANGED <<args, locals>>
    /\ Frame("call")

NextRoll == ParseRollRange \/ GenerationFlush

SpecRoll == InitRoll /\ [][NextRoll]_vars

\* text is a digit run, a hyphen or en-dash, and the literal 00
UpperBound00(text) ==
    /\ Len(text) >= 4
    /\ SubSeq(text, Len(text) - 1, Len(text)) = "00"
    /\ Char(text, Len(text) - 2) \in {"-", EN_DASH}
    /\ \A i \in 1..(Len(text) - 3) : Char(text, i) \in Digits

\* text with every en-dash written as a hyphen
RECURSIVE Hyphenated(_)
Hyphenated(s) ==
    IF Len(s) = 0 THEN ""
    ELSE (IF Head(s) = EN_DASH THEN "-" ELSE Head(s)) \o Hyphenated(Tail(s))

\* C8: parse_roll_range maps 01-05 to (1,5), 98-00 to (98,100), 00 to
\* (100,100), 7 to (7,7); an en-dash input gives what the hyphen input gives;
\* a printed upper bound 00 gives max = 100 in every range-keyed row.
C8_RollRange ==
    pc = "return" =>
        /\ ret.fn = "parse_roll_range" =>
            /\ args.text = "01-05" => ret.value = Returned(<<1, 5>>)
            /\ args.text = "98-00" => ret.value = Returned(<<98, 100>>)
            /\ args.text = "00" => ret.value = Returned(<<100, 100>>)
            /\ args.text = "7" => ret.value = Returned(<<7, 7>>)
            /\ args.text = "01~05" => ret.value = Returned(<<1, 5>>)
            /\ ret.value = parse_roll_range(Hyphenated(args.text))
            /\ UpperBound00(args.text) =>
                   ~ret.value.raised /\ ret.value.value[2] = 100
        /\ ret.fn = "generation_flush" /\ UpperBound00(args.text) =>
               Len(ret.value) = 1 /\ ret.value[1].max = 100

C8_Witness ==
    /\ pc = "return" /\ ret.fn = "parse_roll_range"
    /\ args.text = "98~00" /\ ret.value = Returned(<<98, 100>>)

-----------------------------------------------------------------------------
(* Specification SpecCoins: the hoard-row parsers on short cell lists      *)

MaxCells == 4

HoardCells ==
    {"25%", "50% 1d8 x 1,000sp", "1d4 x 1,000cp", "~", "-", "25gp", "n/a"}

\* the cells of row C1 as printed
C1Cells ==
    <<"25%", "1d4 x 1,000cp", "~", "~", "50%", "1d8 x 1,000sp", "~", "~",
      "25gp">>

CellLists == SeqsUpTo(HoardCells, MaxCells) \cup {C1Cells}

InitCoins ==
    /\ Idle("call")
    /\ pc = "call"
    /\ args \in {[cells |-> c] : c \in CellLists}
    /\ ret = None
    /\ locals = <<>>

ParseCoinsRow ==
    /\ pc = "call"
    /\ ret' = [fn |-> "_parse_coins_row",
               entry |-> _parse_coins_row("C1", args.cells)]
    /\ pc' = "return"
    /\ UNCHANGED <<args, locals>>
    /\ Frame("call")

ParseRichesRow ==
    /\ pc = "call"
    /\ ret' = [fn |-> "_parse_riches_row",
               entry |-> _parse_riches_row("R1", args.cells)]
    /\ pc' = "return"
    /\ UNCHANGED <<args, locals>>
    /\ Frame("call")

NextCoins == ParseCoinsRow \/ ParseRichesRow

SpecCoins == InitCoins /\ [][NextCoins]_vars

IsC1Row == pc = "return" /\ ret.fn = "_parse_coins_row" /\ args.cells = C1Cells

\* C5 as stated: the row C1 parses to copper 25% 1d4 x 1,000cp, silver 50%
\* 1d8 x 1,000sp, gold null, pellucidium null, averageValue 25.
C5_AsStated ==
    IsC1Row =>
        /\ ret.entry.copper = Some([chance |-> 25, quantity |-> "1d4 x 1,000cp"])
        /\ ret.entry.silver = Some([chance |-> 50, quantity |-> "1d8 x 1,000sp"])
        /\ ret.entry.gold = None
        /\ ret.entry.pellucidium = None
        /\ ret.entry.averageValue = Some(25)

\* C5 (amended): the cells are assigned left to right, so the dash pair in
\* second place makes silver null and the 50% cells go to gold.
C5_CoinsRow ==
    IsC1Row =>
        ret.entry = [type |-> "C1", averageValue |-> Some(25),
                     copper |-> Some([chance |-> 25,
                                      quantity |-> "1d4 x 1,000cp"]),
                     silver |-> None,
                     gold |-> Some([chance |-> 50,
                                    quantity |-> "1d8 x 1,000sp"]),
                     pellucidium |-> None]

C5_Witness == IsC1Row /\ ret.entry.gold # None

\* the sub-category types of the parser that returned
TypesOf(fn) == IF fn = "_parse_coins_row" THEN coin_types ELSE riches_types

\* the idx at which the k-th sub-category starts
ColumnStart(cells, types, k) ==
    hoard_columns(<<>>, all_but_last(cells), 0, SubSeq(types, 1, k - 1)).idx

\* the sub-category values of an entry, in order
Columns(entry, types) == [k \in 1..Len(types) |-> entry[types[k]]]

\* C10: a hoard row has every key of its shape; a sub-category whose cell
\* is a dash, or for which no cell remains, is null; averageValue comes
\* from the final cell alone, and the final cell feeds no sub-category.
C10_HoardRowShape ==
    pc = "return" =>
        LET types == TypesOf(ret.fn)
            remaining == all_but_last(args.cells)
        IN  /\ DOMAIN ret.entry =
                   {"type", "averageValue"} \cup {types[k] : k \in 1..Len(types)}
            /\ \A k \in 1..Len(types) :
                   LET start == ColumnStart(args.cells, types, k)
                   IN  IF start >= Len(remaining)
                       THEN ret.entry[types[k]] = None
                       ELSE remaining[start + 1] \in DASHES
                                => ret.entry[types[k]] = None
            /\ ret.entry.averageValue =
                   IF args.cells = <<>> THEN None
                   ELSE parse_average_value(args.cells[Len(args.cells)])
            /\ \A other \in HoardCells :
                   args.cells # <<>> =>
                       LET swapped == Append(remaining, other)
                           again == IF ret.fn = "_parse_coins_row"
                                    THEN _parse_coins_row("C1", swapped)
                                    ELSE _parse_riches_row("R1", swapped)
                       IN  Columns(again, types) = Columns(ret.entry, types)

C10_Witness ==
    /\ pc = "return" /\ ret.fn = "_parse_riches_row"
    /\ args.cells = <<"25%", "1d4 x 1,000cp", "~", "25gp">>
    /\ ret.entry.gems # None /\ ret.entry.artObjects = None
    /\ ret.entry.averageValue = Some(25)

-----------------------------------------------------------------------------
(* collect_spans (extract_dmb.py and, line for line, extract_dcb_treasure.py) *)

\* round(b, 0) of a coordinate b >= 0 given in tenths: to the nearest
\* integer, a half to the even neighbour
round(b) ==
    LET q == b \div 10
        r == b % 10
    IN  IF r < 5 THEN q
        ELSE IF r > 5 THEN q + 1
        ELSE IF q % 2 = 0 THEN q ELSE q + 1

\* tuple(round(b, 0) for b in span["bbox"])
bbox_key(span) == [i \in 1..4 |-> round(span.bbox[i])]

\* the body of `for span in line["spans"]` on the locals seen_bboxes, spans
collect_span_first_two(st, span) ==
    LET key == <<round(span.bbox[1]), round(span.bbox[2])>>
    IN  IF strip(span.text) = "" THEN st
        ELSE IF key \in st.seen_bboxes THEN st
        ELSE [seen_bboxes |-> st.seen_bboxes \cup {key},
              spans |-> Append(st.spans, span)]

collect_span(st, span) ==
    IF strip(span.text) = "" THEN st
    ELSE IF bbox_key(span) \in st.seen_bboxes THEN st
    ELSE [seen_bboxes |-> st.seen_bboxes \cup {bbox_key(span)},
          spans |-> Append(st.spans, span)]

\* collect_spans(page) for a page given as the list of its spans in
\* block / line / span order
RECURSIVE collect_from(_, _)
collect_from(st, page) ==
    IF page = <<>> THEN st.spans
    ELSE LET next == collect_span(st, Head(page))
         IN  IF next = st THEN collect_from(st, Tail(page))
             ELSE collect_from(next, Tail(page))

collect_spans(page) == collect_from([seen_bboxes |-> {}, spans |-> <<>>], page)

-----------------------------------------------------------------------------
(* Specification SpecCollect: collect_spans on a page revealed span by span *)

MaxPageSpans == 3

PageTexts == {"a", "b", " "}

\* left edges 1.4, 1.5 and 2.5 round to 1, 2 and 2; right edges 30 and 31
PageBBoxes == {<<x0, 0, x1, 100>> : x0 \in {14, 15, 25}, x1 \in {300, 310}}

PageSpans ==
    {[text |-> t, font |-> "TheAntiquaB-W5Plain", size |-> 95, bbox |-> b] :
        t \in PageTexts, b \in PageBBoxes}

InitCollect ==
    /\ Idle("collect")
    /\ cs_pos = "blocks"
    /\ page_read = <<>>
    /\ seen_bboxes = {}
    /\ cs_spans = <<>>

\* a block without "lines" (an image) is passed over
ImageBlock ==
    /\ cs_pos = "blocks"
    /\ UNCHANGED collectVars
    /\ Frame("collect")

EnterBlock ==
    /\ cs_pos = "blocks"
    /\ cs_pos' = "lines"
    /\ UNCHANGED <<page_read, seen_bboxes, cs_spans>>
    /\ Frame("collect")

EnterLine ==
    /\ cs_pos = "lines"
    /\ cs_pos' = "spans"
    /\ UNCHANGED <<page_read, seen_bboxes, cs_spans>>
    /\ Frame("collect")

ReadSpan ==
    /\ cs_pos = "spans"
    /\ Len(page_read) < MaxPageSpans
    /\ \E span \in PageSpans :
           LET st == collect_span([seen_bboxes |-> seen_bboxes,
                                   spans |-> cs_spans], span)
           IN  /\ page_read' = Append(page_read, span)
               /\ seen_bboxes' = st.seen_bboxes
               /\ cs_spans' = st.spans
    /\ UNCHANGED cs_pos
    /\ Frame("collect")

EndLine ==
    /\ cs_pos = "spans"
    /\ cs_pos' = "lines"
    /\ UNCHANGED <<page_read, seen_bboxes, cs_spans>>
    /\ Frame("collect")

EndBlock ==
    /\ cs_pos = "lines"
    /\ cs_pos' = "blocks"
    /\ UNCHANGED <<page_read, seen_bboxes, cs_spans>>
    /\ Frame("collect")

ReturnSpans ==
    /\ cs_pos = "blocks"
    /\ cs_pos' = "return"
    /\ UNCHANGED <<page_read, seen_bboxes, cs_spans>>
    /\ Frame("collect")

NextCollect ==
    \/ ImageBlock \/ EnterBlock \/ EnterLine \/ ReadSpan
    \/ EndLine \/ EndBlock \/ ReturnSpans

SpecCollect == InitCollect /\ [][NextCollect]_vars

\* the integer rectangle a span's bounding box rounds to
Rect(span) == <<round(span.bbox[1]), round(span.bbox[2]),
                round(span.bbox[3]), round(span.bbox[4])>>

NonBlank(span) == \E i \in 1..Len(span.text) : Char(span.text, i) # " "

\* the positions of the page whose span is the first non-blank one of its
\* rectangle
FirstOfRect(page) ==
    {i \in 1..Len(page) :
        /\ NonBlank(page[i])
        /\ \A j \in 1..(i - 1) :
               NonBlank(page[j]) => Rect(page[j]) # Rect(page[i])}

\* the subsequence of page at the positions in keep
RECURSIVE SubsequenceAt(_, _, _)
SubsequenceAt(page, keep, i) ==
    IF i > Len(page) THEN <<>>
    ELSE (IF i \in keep THEN <<page[i]>> ELSE <<>>)
             \o SubsequenceAt(page, keep, i + 1)

\* C4: the collected list is the page's spans in page order, keeping of the
\* non-blank spans of one rounded rectangle exactly the first; spans of
\* distinct rounded rectangles are all kept, equal text or not.
C4_SpanDedup ==
    /\ cs_spans = SubsequenceAt(page_read, FirstOfRect(page_read), 1)
    /\ \A i, j \in 1..Len(page_read) :
           /\ NonBlank(page_read[i]) /\ NonBlank(page_read[j])
           /\ Rect(page_read[i]) # Rect(page_read[j])
           => \E k, l \in 1..Len(cs_spans) :
                  /\ Rect(cs_spans[k]) = Rect(page_read[i])
                  /\ Rect(cs_spans[l]) = Rect(page_read[j])

\* same text at 1.5 and at 1.4 (two rectangles), then other text at 2.5
\* (the rectangle of 1.5): the first two are returned
C4_Witness ==
    /\ cs_pos = "return" /\ Len(page_read) = 3 /\ Len(cs_spans) = 2
    /\ page_read[1].text = "a" /\ page_read[2].text = "a"
    /\ page_read[3].text = "b"
    /\ page_read[1].bbox = <<15, 0, 300, 100>>
    /\ page_read[2].bbox = <<14, 0, 300, 100>>
    /\ page_read[3].bbox = <<25, 0, 300, 100>>
    /\ cs_spans = <<page_read[1], page_read[2]>>

-----------------------------------------------------------------------------
(* extract_dmb.py: span classification                                     *)

UPPERCASE == "ABCDEFGHIJKLMNOPQRSTUVWXYZ"

LOWERCASE == "abcdefghijklmnopqrstuvwxyz"

\* str.lower() and str.upper() on ASCII text
LowerChar(c) ==
    IF \E k \in 1..26 : Char(UPPERCASE, k) = c
    THEN Char(LOWERCASE, CHOOSE k \in 1..26 : Char(UPPERCASE, k) = c)
    ELSE c

UpperChar(c) ==
    IF \E k \in 1..26 : Char(LOWERCASE, k) = c
    THEN Char(UPPERCASE, CHOOSE k \in 1..26 : Char(LOWERCASE, k) = c)
    ELSE c

RECURSIVE lower(_)
lower(s) == IF Len(s) = 0 THEN "" ELSE LowerChar(Head(s)) \o lower(Tail(s))

RECURSIVE upper(_)
upper(s) == IF Len(s) = 0 THEN "" ELSE UpperChar(Head(s)) \o upper(Tail(s))

\* re.sub(r'\xad\s*', '', text)
RECURSIVE remove_soft_hyphens(_)
remove_soft_hyphens(text) ==
    IF Len(text) = 0 THEN ""
    ELSE IF Char(text, 1) = SOFT_HYPHEN
         THEN remove_soft_hyphens(lstrip(Tail(text)))
         ELSE Char(text, 1) \o remove_soft_hyphens(Tail(text))

\* a span of a page: its text, the name of its font, its size in tenths
Span(text, font, size) == [text |-> text, font |-> font, size |-> size]

is_creature_name_font(span) ==
    Contains(span.font, "Winona") /\ 300 < span.size /\ span.size < 450

is_section_title_font(span) ==
    Contains(span.font, "Winona") /\ span.size > 450

is_appendix_creature_name_font(span) ==
    Contains(span.font, "AlverataBl") /\ span.size > 140

is_drop_cap_font(span) == Contains(span.font, "ZallmanCaps")

is_variant_label_font(span) ==
    Contains(span.font, "Alverata-Bold") /\ 110 < span.size /\ span.size < 140

is_meta_font(span) ==
    Contains(span.font, "Alverata-Bold") /\ 85 < span.size /\ span.size < 100

is_stat_label_font(span) == Contains(span.font, "W8ExtraBold")

is_stat_value_font(span) ==
    /\ Contains(span.font, "W5Plain") /\ ~Contains(span.font, "Itali")
    /\ 90 < span.size /\ span.size < 110

is_section_header_font(span) == Contains(span.font, "AlegreyaSans")

is_ability_label_font(span) ==
    Contains(span.font, "W7Bold") /\ ~Contains(span.font, "Italic")

is_description_font(span) == Contains(span.font, "IM_FELL")

is_body_text_font(span) ==
    Contains(span.font, "W5Plain") /\ 80 < span.size /\ span.size < 110

is_page_header_font(span) ==
    Contains(span.font, "Alverata-Bold") /\ span.size < 85

is_page_number_font(span) ==
    Contains(span.font, "W5Plain") /\ 105 < span.size /\ span.size < 120

\* a dict is a function of its keys; the empty dict
EmptyDict == <<>>

\* d[key] = value
SetItem(d, key, value) == (key :> value) @@ d

-----------------------------------------------------------------------------
(* extract_dmb.py: _parse_compact_creature                                 *)

CompactCreature(name) ==
    [name |-> name, meta |-> "", stats |-> EmptyDict, abilities |-> <<>>,
     description |-> "", variants |-> <<>>]

\* the locals of _parse_compact_creature before its loop
compact_locals(name) ==
    [creature |-> CompactCreature(name),
     state |-> "init",
     current_stat_label |-> None,
     current_stat_values |-> <<>>,
     current_ability_label |-> None,
     current_ability_text |-> <<>>,
     current_variant_label |-> None,
     current_variant_meta |-> None,
     current_variant_stats |-> EmptyDict,
     current_variant_abilities |-> <<>>,
     active_variant_label |-> None]

compact_stat_key(label) ==
    IF label = "Att" THEN "attacks"
    ELSE IF label = "Enc" THEN "encounters"
    ELSE lower(label)

compact_flush_stat(st) ==
    LET value == strip(join(st.current_stat_values))
        key == compact_stat_key(st.current_stat_label[1])
        stored ==
            IF st.current_stat_label # None /\ st.current_stat_values # <<>>
            THEN IF st.current_variant_label # None
                 THEN [st EXCEPT !.current_variant_stats =
                                     SetItem(@, key, value)]
                 ELSE [st EXCEPT !.creature.stats = SetItem(@, key, value)]
            ELSE st
    IN  [stored EXCEPT !.current_stat_label = None,
                       !.current_stat_values = <<>>]

compact_ability(st) ==
    [name |-> rstrip_char(st.current_ability_label[1], ":"),
     text |-> remove_soft_hyphens(strip(join(st.current_ability_text)))]

compact_flush_ability_to_creature(st) ==
    LET stored ==
            IF st.current_ability_label # None
               /\ st.current_ability_text # <<>>
            THEN [st EXCEPT !.creature.abilities =
                                Append(@, compact_ability(st))]
            ELSE st
    IN  [stored EXCEPT !.current_ability_label = None,
                       !.current_ability_text = <<>>]

compact_flush_ability(st) ==
    LET stored ==
            IF st.current_ability_label # None
               /\ st.current_ability_text # <<>>
            THEN IF st.active_variant_label # None
                 THEN [st EXCEPT !.current_variant_abilities =
                                     Append(@, compact_ability(st))]
                 ELSE [st EXCEPT !.creature.abilities =
                                     Append(@, compact_ability(st))]
            ELSE st
    IN  [stored EXCEPT !.current_ability_label = None,
                       !.current_ability_text = <<>>]

\* the variant dict flush_variant builds: "meta" and "abilities" are keys
\* only when they are not empty
compact_variant(st) ==
    [label |-> st.current_variant_label[1],
     stats |-> st.current_variant_stats]
    @@ (IF st.current_variant_meta # None
        THEN "meta" :> st.current_variant_meta[1] ELSE EmptyDict)
    @@ (IF st.current_variant_abilities # <<>>
        THEN "abilities" :> st.current_variant_abilities ELSE EmptyDict)

compact_flush_variant(st) ==
    LET stored ==
            IF st.current_variant_label # None
               /\ DOMAIN st.current_variant_stats # {}
            THEN [st EXCEPT !.creature.variants =
                                Append(@, compact_variant(st))]
            ELSE st
    IN  [stored EXCEPT !.current_variant_label = None,
                       !.current_variant_meta = None,
                       !.current_variant_stats = EmptyDict,
                       !.current_variant_abilities = <<>>,
                       !.active_variant_label = None]

\* one iteration of `for span in spans` of _parse_compact_creature
compact_step(st, span) ==
    LET text == strip(span.text)
    IN  IF text = "" THEN st
        ELSE IF is_page_header_font(span) THEN st
        ELSE IF is_page_number_font(span) /\ isdigit(text) THEN st
        ELSE IF is_variant_label_font(span)
        THEN LET s1 == IF st.state = "stats" THEN compact_flush_stat(st)
                       ELSE st
                 s2 == IF s1.state = "abilities"
                       THEN compact_flush_ability(s1) ELSE s1
                 s3 == compact_flush_variant(s2)
             IN  [s3 EXCEPT !.current_variant_label = Some(text),
                            !.active_variant_label = Some(text),
                            !.state = "stats"]
        ELSE IF is_meta_font(span)
        THEN LET s1 == IF st.current_variant_label # None
                       THEN [st EXCEPT !.current_variant_meta = Some(text)]
                       ELSE IF st.creature.meta = ""
                       THEN [st EXCEPT !.creature.meta = text]
                       ELSE st
             IN  [s1 EXCEPT !.state = "stats"]
        ELSE IF is_stat_label_font(span)
        THEN [compact_flush_stat([st EXCEPT !.state = "stats"])
                  EXCEPT !.current_stat_label = Some(text)]
        ELSE IF /\ st.state = "stats" /\ st.current_stat_label # None
                /\ (Contains(span.font, "W5Plain")
                    \/ Contains(span.font, "Itali"))
        THEN [st EXCEPT !.current_stat_values = Append(@, text)]
        ELSE IF /\ is_ability_label_font(span)
                /\ st.state \in {"stats", "abilities"}
        THEN LET s1 == IF st.state = "stats"
                       THEN LET f == compact_flush_stat(st)
                            IN  [f EXCEPT
                                   !.active_variant_label =
                                       IF f.current_variant_label # None
                                       THEN f.current_variant_label ELSE @,
                                   !.state = "abilities"]
                       ELSE st
             IN  [compact_flush_ability(s1)
                     EXCEPT !.current_ability_label = Some(text)]
        ELSE IF /\ st.state = "abilities" /\ st.current_ability_label # None
                /\ (is_body_text_font(span) \/ Contains(span.font, "Itali"))
        THEN [st EXCEPT !.current_ability_text = Append(@, text)]
        ELSE st

\* the final flushes
compact_finish(st) ==
    LET s1 == compact_flush_stat(st)
        s2 == IF s1.state = "abilities" THEN compact_flush_ability(s1)
              ELSE s1
    IN  compact_flush_variant(s2)

\* return creature if (creature.stats or creature.variants) else None
compact_result(creature) ==
    IF DOMAIN creature.stats # {} \/ creature.variants # <<>>
    THEN Some(creature) ELSE None

RECURSIVE compact_loop(_, _)
compact_loop(st, spans) ==
    IF spans = <<>> THEN st
    ELSE compact_loop(compact_step(st, Head(spans)), Tail(spans))

_parse_compact_creature(name, spans, section_name) ==
    compact_result(compact_finish(compact_loop(compact_locals(name), spans))
                       .creature)

-----------------------------------------------------------------------------
(* Specification SpecCompact: _parse_compact_creature, span by span, on    *)
(* adventurer entries of two variant blocks                                *)

MaxAbilities == 1

VariantLabel(text) == Span(text, "Alverata-Bold", 120)

MetaLine(text) == Span(text, "Alverata-Bold", 90)

StatLabel(text) == Span(text, "TheAntiquaB-W8ExtraBold", 95)

StatValue(text) == Span(text, "TheAntiquaB-W5Plain", 95)

AbilityLabel(text) == Span(text, "TheAntiquaB-W7Bold", 95)

BodyText(text) == Span(text, "TheAntiquaB-W5Plain", 95)

ItalicText(text) == Span(text, "TheAntiquaB-W5PlainItalic", 95)

PageHeader(text) == Span(text, "Alverata-Bold", 78)

PageNumber(text) == Span(text, "TheAntiquaB-W5Plain", 110)

\* a variant label, an optional meta line, stat labels with their values
VariantHeads(label) ==
    {<<VariantLabel(label), StatLabel("Level"), StatValue("1")>>,
     <<VariantLabel(label), MetaLine("Medium mortal"),
       StatLabel("AC"), StatValue("14"), StatValue("+ shield")>>,
     <<VariantLabel(label), StatLabel("Level"), StatValue("3"),
       StatLabel("Att"), StatValue("Weapon")>>}

\* what a page break puts between a stat block and the abilities under it
PageBreaks == {<<>>, <<PageHeader("Adventurers"), PageNumber("112"),
                       Span(" ", "TheAntiquaB-W5Plain", 95)>>}

\* an ability-label span and its text
AbilityUnits ==
    {<<AbilityLabel("Skills:"), BodyText("Listen 5,"), BodyText("Search 5")>>,
     <<AbilityLabel("Magic:"), BodyText("Counter^"), BodyText("charm")>>,
     <<AbilityLabel("Magic:"), ItalicText("Glamours")>>}

RECURSIVE AbilityRuns(_)
AbilityRuns(n) ==
    IF n = 0 THEN {<<>>}
    ELSE LET shorter == AbilityRuns(n - 1)
         IN  shorter \cup {r \o u : r \in shorter, u \in AbilityUnits}

VariantBlocks(label) ==
    {h \o b \o a : h \in VariantHeads(label), b \in PageBreaks,
                   a \in AbilityRuns(MaxAbilities) \ {<<>>}}

AdventurerEntries ==
    {b1 \o b2 : b1 \in VariantBlocks("Level 1 Bard"),
                b2 \in VariantBlocks("Level 3 Bard")}

InitCompact ==
    /\ Idle("call")
    /\ pc = "loop"
    /\ args \in {[name |-> "BARD", spans |-> e, section_name |-> "adventurers"]
                    : e \in AdventurerEntries}
    /\ locals = [i |-> 1, st |-> compact_locals("BARD")]
    /\ ret = None

CompactSpan ==
    /\ pc = "loop"
    /\ locals.i <= Len(args.spans)
    /\ locals' = [i |-> locals.i + 1,
                  st |-> compact_step(locals.st, args.spans[locals.i])]
    /\ UNCHANGED <<pc, args, ret>>
    /\ Frame("call")

CompactReturn ==
    /\ pc = "loop"
    /\ locals.i > Len(args.spans)
    /\ locals' = [locals EXCEPT !.st = compact_finish(@)]
    /\ ret' = compact_result(compact_finish(locals.st).creature)
    /\ pc' = "return"
    /\ UNCHANGED args
    /\ Frame("call")

NextCompact == CompactSpan \/ CompactReturn

SpecCompact == InitCompact /\ [][NextCompact]_vars

\* the spans of the entry the parser does not pass over
IsRead(span) ==
    /\ strip(span.text) # ""
    /\ ~is_page_header_font(span)
    /\ ~(is_page_number_font(span) /\ isdigit(strip(span.text)))

IsVariantStart(span) == IsRead(span) /\ is_variant_label_font(span)

IsAbilityStart(span) == IsRead(span) /\ is_ability_label_font(span)

\* the positions of the variant labels of the entry, in order
RECURSIVE VariantStarts(_, _)
VariantStarts(entry, i) ==
    IF i > Len(entry) THEN <<>>
    ELSE (IF IsVariantStart(entry[i]) THEN <<i>> ELSE <<>>)
             \o VariantStarts(entry, i + 1)

\* the first position after i that starts a variant or an ability
RECURSIVE UnitEnd(_, _)
UnitEnd(entry, i) ==
    IF i + 1 > Len(entry) THEN Len(entry) + 1
    ELSE IF IsVariantStart(entry[i + 1]) \/ IsAbilityStart(entry[i + 1])
    THEN i + 1
    ELSE UnitEnd(entry, i + 1)

\* the texts of the read spans at positions from..to - 1
RECURSIVE TextsBetween(_, _, _)
TextsBetween(entry, from, to) ==
    IF from >= to THEN <<>>
    ELSE (IF IsRead(entry[from]) THEN <<strip(entry[from].text)>> ELSE <<>>)
             \o TextsBetween(entry, from + 1, to)

\* the abilities printed at positions from..to - 1 of the entry
RECURSIVE PrintedAbilities(_, _, _)
PrintedAbilities(entry, from, to) ==
    IF from >= to THEN <<>>
    ELSE IF IsAbilityStart(entry[from])
    THEN <<[name |-> rstrip_char(strip(entry[from].text), ":"),
            text |-> remove_soft_hyphens(
                         join(TextsBetween(entry, from + 1,
                                           UnitEnd(entry, from))))]>>
             \o PrintedAbilities(entry, from + 1, to)
    ELSE PrintedAbilities(entry, from + 1, to)

\* the abilities printed under the k-th variant label and before the next
AbilitiesUnder(entry, k) ==
    LET starts == VariantStarts(entry, 1)
    IN  PrintedAbilities(entry, starts[k],
                         IF k < Len(starts) THEN starts[k + 1]
                         ELSE Len(entry) + 1)

AbilitiesOf(variant) ==
    IF "abilities" \in DOMAIN variant THEN variant.abilities ELSE <<>>

\* C1: on an adventurer entry of two variant blocks, each a variant label
\* and stat labels and values followed by ability labels with their text,
\* no ability is ever put on the creature's own list, and the returned
\* creature has the two variants in order, each with exactly the abilities
\* printed under its own stat block, in order.
C1_VariantAbilityScoping ==
    /\ locals.st.creature.abilities = <<>>
    /\ pc = "return" =>
           /\ ret # None
           /\ ret[1].abilities = <<>>
           /\ Len(ret[1].variants) = 2
           /\ Len(VariantStarts(args.spans, 1)) = 2
           /\ \A k \in 1..2 :
                  /\ ret[1].variants[k].label =
                         args.spans[VariantStarts(args.spans, 1)[k]].text
                  /\ AbilitiesOf(ret[1].variants[k]) =
                         AbilitiesUnder(args.spans, k)
                  /\ AbilitiesOf(ret[1].variants[k]) # <<>>

\* both variants have a "Magic" ability of their own, the first one printed
\* after a page break
C1_Witness ==
    /\ pc = "return"
    /\ \E i \in 1..Len(args.spans) : is_page_header_font(args.spans[i])
    /\ ret[1].variants[1].label = "Level 1 Bard"
    /\ ret[1].variants[1].abilities =
           <<[name |-> "Magic", text |-> "Countercharm"]>>
    /\ ret[1].variants[2].label = "Level 3 Bard"
    /\ ret[1].variants[2].abilities =
           <<[name |-> "Magic", text |-> "Glamours"]>>

-----------------------------------------------------------------------------
(* extract_dmb.py: _parse_bestiary_spans                                   *)

ENRICHMENT_FIELDS == {"Behaviour", "Speech", "Possessions", "Hoard"}

\* re.sub(r'-\s+', '-', text)
RECURSIVE fix_broken_hyphens(_)
fix_broken_hyphens(text) ==
    IF Len(text) = 0 THEN ""
    ELSE IF Char(text, 1) = "-"
         THEN "-" \o fix_broken_hyphens(lstrip(Tail(text)))
         ELSE Char(text, 1) \o fix_broken_hyphens(Tail(text))

BestiaryCreature(name) ==
    [name |-> name, description |-> "", meta |-> "", stats |-> EmptyDict,
     behaviour |-> "", speech |-> "", possessions |-> "", hoard |-> "",
     abilities |-> <<>>, sections |-> EmptyDict, names |-> ""]

\* a record that always has stats, abilities and sections
BestiaryCreature_to_dict_required(self) ==
    LET key(k) == IF self[k] = "" THEN EmptyDict ELSE k :> self[k]
    IN  [name |-> self.name, stats |-> self.stats,
         abilities |-> self.abilities, sections |-> self.sections]
            @@ key("description") @@ key("meta") @@ key("behaviour")
            @@ key("speech") @@ key("possessions") @@ key("hoard")
            @@ key("names")

\* BestiaryCreature.to_dict: a key for the name and for every non-empty field
BestiaryCreature_to_dict(self) ==
    LET key(k) == IF self[k] = "" THEN EmptyDict ELSE k :> self[k]
        map(k) == IF DOMAIN self[k] = {} THEN EmptyDict ELSE k :> self[k]
    IN  ("name" :> self.name) @@ key("description") @@ key("meta")
            @@ map("stats") @@ key("behaviour") @@ key("speech")
            @@ key("possessions") @@ key("hoard")
            @@ (IF self.abilities = <<>> THEN EmptyDict
                ELSE "abilities" :> self.abilities)
            @@ map("sections") @@ key("names")

\* the creature and the locals of _parse_bestiary_spans before its loop
bestiary_locals(creature) ==
    [creature |-> creature,
     state |-> "init",
     current_stat_label |-> None,
     current_stat_values |-> <<>>,
     current_ability_label |-> None,
     current_ability_text |-> <<>>,
     current_section_name |-> None,
     current_section_entries |-> <<>>,
     current_entry_num |-> None,
     current_entry_text |-> <<>>,
     description_parts |-> <<>>]

bestiary_flush_stat(st) ==
    LET label == st.current_stat_label[1]
        value == strip(join(st.current_stat_values))
        stored ==
            IF st.current_stat_label # None /\ st.current_stat_values # <<>>
            THEN IF label \in ENRICHMENT_FIELDS
                 THEN [st EXCEPT !.creature[lower(label)] = value]
                 ELSE [st EXCEPT !.creature.stats =
                                     SetItem(@, lower(label), value)]
            ELSE st
    IN  [stored EXCEPT !.current_stat_label = None,
                       !.current_stat_values = <<>>]

bestiary_clean(parts) ==
    fix_broken_hyphens(remove_soft_hyphens(strip(join(parts))))

bestiary_flush_ability(st) ==
    LET stored ==
            IF st.current_ability_label # None
               /\ st.current_ability_text # <<>>
            THEN [st EXCEPT !.creature.abilities =
                     Append(@, [name |-> rstrip_char(
                                             st.current_ability_label[1], ":"),
                                text |-> bestiary_clean(
                                             st.current_ability_text)])]
            ELSE st
    IN  [stored EXCEPT !.current_ability_label = None,
                       !.current_ability_text = <<>>]

\* flush_section_entry with the gathered text left in place
bestiary_flush_section_entry_keep_text(st) ==
    LET stored ==
            IF st.current_entry_num # None /\ st.current_entry_text # <<>>
            THEN [st EXCEPT !.current_section_entries =
                     Append(@, [roll |-> st.current_entry_num[1],
                                text |-> bestiary_clean(
                                             st.current_entry_text)])]
            ELSE st
    IN  [stored EXCEPT !.current_entry_num = None]

bestiary_flush_section_entry(st) ==
    LET stored ==
            IF st.current_entry_num # None /\ st.current_entry_text # <<>>
            THEN [st EXCEPT !.current_section_entries =
                     Append(@, [roll |-> st.current_entry_num[1],
                                text |-> bestiary_clean(
                                             st.current_entry_text)])]
            ELSE st
    IN  [stored EXCEPT !.current_entry_num = None,
                       !.current_entry_text = <<>>]

bestiary_flush_section(st) ==
    LET s1 == bestiary_flush_section_entry(st)
        stored ==
            IF s1.current_section_name # None
               /\ s1.current_section_entries # <<>>
            THEN [s1 EXCEPT !.creature.sections =
                     SetItem(@, s1.current_section_name[1],
                             s1.current_section_entries)]
            ELSE s1
    IN  [stored EXCEPT !.current_section_name = None,
                       !.current_section_entries = <<>>]

\* the flush of whatever the state has in progress
bestiary_flush_state(st) ==
    IF st.state = "stats" THEN bestiary_flush_stat(st)
    ELSE IF st.state = "abilities" THEN bestiary_flush_ability(st)
    ELSE IF st.state = "section" THEN bestiary_flush_section(st)
    ELSE st

\* " ".join(description_parts).strip() without its soft hyphens
bestiary_description(parts) == remove_soft_hyphens(strip(join(parts)))

\* the part of the loop body from "Section headers" on
bestiary_step_tail(st, span, text) ==
    IF is_section_header_font(span)
    THEN [bestiary_flush_state(st) EXCEPT
             !.state = "section",
             !.current_section_name = Some(strip(text)),
             !.current_section_entries = <<>>,
             !.current_entry_num = None,
             !.current_entry_text = <<>>]
    ELSE IF is_ability_label_font(span)
            /\ st.state \in {"stats", "abilities"}
    THEN LET s1 == IF st.state = "stats"
                   THEN [bestiary_flush_stat(st) EXCEPT !.state = "abilities"]
                   ELSE st
         IN  [bestiary_flush_ability(s1)
                 EXCEPT !.current_ability_label = Some(text)]
    ELSE IF /\ st.state = "abilities" /\ st.current_ability_label # None
            /\ (is_body_text_font(span) \/ Contains(span.font, "Itali"))
    THEN [st EXCEPT !.current_ability_text = Append(@, text)]
    ELSE IF st.state = "section"
    THEN IF is_ability_label_font(span) /\ span.size < 90
         THEN IF isdigit(text)
              THEN [bestiary_flush_section_entry(st)
                       EXCEPT !.current_entry_num = Some(text)]
              ELSE [st EXCEPT !.current_entry_text = Append(@, text)]
         ELSE IF Contains(span.font, "BoldItalic")
         THEN [st EXCEPT !.current_entry_text = Append(@, text)]
         ELSE IF is_body_text_font(span) \/ Contains(span.font, "Itali")
         THEN IF startswith(text, "Names:")
              THEN [bestiary_flush_section(st) EXCEPT
                       !.creature.names =
                           strip(SubSeq(text, Len("Names:") + 1, Len(text))),
                       !.state = "names_area"]
              ELSE [st EXCEPT !.current_entry_text = Append(@, text)]
         ELSE st
    ELSE IF st.state = "names_area" /\ is_body_text_font(span)
    THEN [st EXCEPT !.creature.names = @ \o " " \o text]
    ELSE st

\* one iteration of `for span in spans` of _parse_bestiary_spans
bestiary_step(st, span) ==
    LET text == strip(span.text)
    IN  IF text = "" THEN st
        ELSE IF is_page_header_font(span) THEN st
        ELSE IF is_page_number_font(span) /\ isdigit(text) THEN st
        ELSE IF is_creature_name_font(span)
        THEN [st EXCEPT !.state = "description"]
        ELSE IF is_description_font(span)
        THEN IF st.state \in {"init", "description"}
             THEN [st EXCEPT !.state = "description",
                             !.description_parts = Append(@, text)]
             ELSE st
        ELSE IF is_meta_font(span) /\ st.state \in {"init", "description"}
        THEN LET s1 == IF st.description_parts # <<>>
                       THEN [st EXCEPT
                                !.creature.description =
                                    bestiary_description(st.description_parts),
                                !.description_parts = <<>>]
                       ELSE st
             IN  [s1 EXCEPT !.creature.meta = text, !.state = "stats"]
        ELSE IF /\ is_stat_label_font(span) /\ span.size > 100
                /\ st.state \in {"stats", "description"}
        THEN [bestiary_flush_stat([st EXCEPT !.state = "stats"])
                 EXCEPT !.current_stat_label = Some(text)]
        ELSE IF /\ st.state = "stats" /\ st.current_stat_label # None
                /\ \/ is_stat_value_font(span)
                   \/ Contains(span.font, "W5Plain") /\ span.size > 95
                   \/ Contains(span.font, "Itali") /\ span.size > 95
        THEN [st EXCEPT !.current_stat_values = Append(@, text)]
        ELSE bestiary_step_tail(st, span, text)

\* the final flushes and clean-ups; the creature as the call leaves it
bestiary_finish(st) ==
    LET s1 == bestiary_flush_state(st)
        s2 == IF s1.description_parts # <<>> /\ s1.creature.description = ""
              THEN [s1 EXCEPT !.creature.description =
                                  bestiary_description(s1.description_parts)]
              ELSE s1
    IN  [s2.creature EXCEPT !.names = strip(@)]

RECURSIVE bestiary_loop(_, _)
bestiary_loop(st, spans) ==
    IF spans = <<>> THEN st
    ELSE bestiary_loop(bestiary_step(st, Head(spans)), Tail(spans))

_parse_bestiary_spans(creature, spans) ==
    bestiary_finish(bestiary_loop(bestiary_locals(creature), spans))

-----------------------------------------------------------------------------
(* extract_dmb.py: extract_bestiary                                        *)

BESTIARY_FIRST == 13     \* range(13, 103)

BESTIARY_END == 103

\* the name of a creature as phase 1 normalises it
bestiary_name(text) == replace(replace(strip(text), EM_DASH, "-"),
                               RIGHT_QUOTE, "'")

\* the first span of the list that is in the creature-name font, if any
RECURSIVE first_creature_name_span(_)
first_creature_name_span(spans) ==
    IF spans = <<>> THEN None
    ELSE IF is_creature_name_font(Head(spans)) THEN Some(Head(spans))
    ELSE first_creature_name_span(Tail(spans))

\* phase 1 from page_num on: the (page_idx, name) pairs
RECURSIVE creature_starts_from(_, _)
creature_starts_from(doc, page_num) ==
    IF page_num >= BESTIARY_END THEN <<>>
    ELSE LET found == first_creature_name_span(collect_spans(doc[page_num]))
             name == bestiary_name(found[1].text)
         IN  (IF found # None /\ name # "" /\ name # "Bestiary"
              THEN <<<<page_num, name>>>> ELSE <<>>)
                 \o creature_starts_from(doc, page_num + 1)

RECURSIVE collect_page_range(_, _, _)
collect_page_range(doc, start_page, end_page) ==
    IF start_page >= end_page THEN <<>>
    ELSE collect_spans(doc[start_page])
             \o collect_page_range(doc, start_page + 1, end_page)

extract_bestiary_creature(doc, name, start_page, end_page) ==
    _parse_bestiary_spans(BestiaryCreature(name),
                          collect_page_range(doc, start_page, end_page))

\* every creature read to the end of the section
bestiary_end_page_section(creature_starts, i) == BESTIARY_END

\* the end page of the i-th creature (i from 1)
bestiary_end_page(creature_starts, i) ==
    IF i < Len(creature_starts) THEN creature_starts[i + 1][1]
    ELSE BESTIARY_END

\* the body of the phase 2 loop from the filter on
bestiary_keep_all(creatures, creature) ==
    Append(creatures, BestiaryCreature_to_dict(creature))

bestiary_keep(creatures, creature) ==
    IF DOMAIN creature.stats = {} THEN creatures
    ELSE Append(creatures, BestiaryCreature_to_dict(creature))

-----------------------------------------------------------------------------
(* Specification SpecBestiary: extract_bestiary on documents whose first   *)
(* MaxBestiaryPages bestiary pages are printed and the others blank        *)

MaxBestiaryPages == 3

\* a span with the box of the row-th line of the page
Placed(span, row) ==
    span @@ [bbox |-> <<500, 1000 * row + 4, 3000, 1000 * row + 126>>]

CreatureName(text) == Span(text, "Winona", 350)

Description(text) == Span(text, "IM_FELL_Great_Primer_Rom", 120)

BigStatLabel(text) == Span(text, "TheAntiquaB-W8ExtraBold", 105)

SectionHeader(text) == Span(text, "AlegreyaSans-ExtraBold", 140)

EntryNumber(text) == Span(text, "TheAntiquaB-W7Bold", 85)

\* a creature with a description (printed in twin text layers), a meta
\* line, stats and an ability
StatPage ==
    <<Placed(CreatureName("Goblin"), 1),
      Placed(Description("Sly fairy"), 2),
      Placed(Description("Sly fairy"), 2),
      Placed(MetaLine("Small fairy"), 3),
      Placed(BigStatLabel("Level"), 4), Placed(StatValue("1"), 5),
      Placed(AbilityLabel("Dark sight:"), 6), Placed(BodyText("60 ft"), 7)>>

\* an overview: a name and a description, no stat block
OverviewPage ==
    <<Placed(CreatureName("Wyrm" \o EM_DASH \o "Overview"), 1),
      Placed(Description("Great serpents"), 2)>>

\* a page without a name: a stat line, then an encounter table
ContinuationPage ==
    <<Placed(PageHeader("Monsters"), 1),
      Placed(BigStatLabel("AC"), 2), Placed(StatValue("15"), 3),
      Placed(SectionHeader("ENCOUNTERS"), 4),
      Placed(EntryNumber("1"), 5), Placed(BodyText("A lone hunter"), 6)>>

\* the chapter's title page
TitlePage ==
    <<Placed(CreatureName("Bestiary"), 1),
      Placed(Description("Monsters of the Wood"), 2)>>

\* a creature with a meta line and only a Behaviour line
BehaviourPage ==
    <<Placed(CreatureName("Mossling"), 1),
      Placed(MetaLine("Small demi-fey"), 2),
      Placed(BigStatLabel("Behaviour"), 3), Placed(StatValue("Shy"), 4)>>

\* the chapter's title followed by a name in the same font
TitleThenNamePage ==
    <<Placed(CreatureName("Bestiary"), 1),
      Placed(CreatureName("Goblin"), 2),
      Placed(BigStatLabel("Level"), 3), Placed(StatValue("1"), 4)>>

\* a running header and a name span of blanks before the creature's name
LateNamePage ==
    <<Placed(PageHeader("Monsters"), 1),
      Placed(CreatureName("  "), 2),
      Placed(CreatureName("Sprite"), 3),
      Placed(BigStatLabel("Level"), 4), Placed(StatValue("2"), 5),
      Placed(BigStatLabel("Speech"), 6), Placed(StatValue("Sylvan"), 7)>>

BlankPage == <<>>

PageKinds ==
    {StatPage, OverviewPage, ContinuationPage, TitlePage, BehaviourPage,
     TitleThenNamePage, LateNamePage, BlankPage}

\* the pages 0..BESTIARY_END - 1 of a document
Documents ==
    {[page_num \in 0..(BESTIARY_END - 1) |->
         IF /\ page_num >= BESTIARY_FIRST
            /\ page_num < BESTIARY_FIRST + MaxBestiaryPages
         THEN printed[page_num - BESTIARY_FIRST + 1]
         ELSE BlankPage]
       : printed \in [1..MaxBestiaryPages -> PageKinds]}

InitBestiary ==
    /\ Idle("call")
    /\ pc = "phase 1"
    /\ args \in {[doc |-> d] : d \in Documents}
    /\ locals = [creature_starts |-> <<>>, i |-> 1, creatures |-> <<>>,
                 start_page |-> None, end_page |-> None]
    /\ ret = None

FindCreatureStarts ==
    /\ pc = "phase 1"
    /\ locals' = [locals EXCEPT
                     !.creature_starts =
                         creature_starts_from(args.doc, BESTIARY_FIRST)]
    /\ pc' = "phase 2"
    /\ UNCHANGED <<args, ret>>
    /\ Frame("call")

ExtractCreature ==
    /\ pc = "phase 2"
    /\ locals.i <= Len(locals.creature_starts)
    /\ LET start == locals.creature_starts[locals.i]
           end_page == bestiary_end_page(locals.creature_starts, locals.i)
           creature ==
               extract_bestiary_creature(args.doc, start[2], start[1],
                                         end_page)
       IN  locals' = [locals EXCEPT
                         !.i = @ + 1,
                         !.start_page = Some(start[1]),
                         !.end_page = Some(end_page),
                         !.creatures = bestiary_keep(@, creature)]
    /\ UNCHANGED <<pc, args, ret>>
    /\ Frame("call")

ReturnCreatures ==
    /\ pc = "phase 2"
    /\ locals.i > Len(locals.creature_starts)
    /\ ret' = locals.creatures
    /\ pc' = "return"
    /\ UNCHANGED <<args, locals>>
    /\ Frame("call")

NextBestiary == FindCreatureStarts \/ ExtractCreature \/ ReturnCreatures

SpecBestiary == InitBestiary /\ [][NextBestiary]_vars

\* the creature parsed for the k-th start
ParsedCreature(k) ==
    extract_bestiary_creature(
        args.doc, locals.creature_starts[k][2], locals.creature_starts[k][1],
        bestiary_end_page(locals.creature_starts, k))

\* the output records of the creatures with stats among the first n parsed
RECURSIVE WithStats(_)
WithStats(n) ==
    IF n = 0 THEN <<>>
    ELSE WithStats(n - 1)
             \o (IF DOMAIN ParsedCreature(n).stats # {}
                 THEN <<BestiaryCreature_to_dict(ParsedCreature(n))>>
                 ELSE <<>>)

\* C3: the list extract_bestiary builds and returns holds, in page order,
\* the record of every creature parsed so far whose stats are not empty and
\* of no other: no record without stats is in it, whatever else it has.
C3_DiscardWithoutStats ==
    /\ pc \in {"phase 2", "return"} =>
           /\ locals.creatures = WithStats(locals.i - 1)
           /\ \A k \in 1..Len(locals.creatures) :
                  /\ "stats" \in DOMAIN locals.creatures[k]
                  /\ DOMAIN locals.creatures[k].stats # {}
    /\ pc = "return" => ret = WithStats(Len(locals.creature_starts))

\* an overview with a description and a creature with only a behaviour and
\* a meta line are parsed and left out; the creature after them is returned
C3_Witness ==
    /\ pc = "return"
    /\ Len(locals.creature_starts) = 3
    /\ ParsedCreature(1).description = "Great serpents"
    /\ ParsedCreature(1).stats = EmptyDict
    /\ ParsedCreature(2).behaviour = "Shy"
    /\ ParsedCreature(2).stats = EmptyDict
    /\ Len(ret) = 1
    /\ ret[1].name = "Goblin"
    /\ ret[1].stats = [level |-> "1"]
    /\ ret[1].description = "Sly fairy"

-----------------------------------------------------------------------------
(* extract_dmb.py: _title_case_name and extract_mortals                    *)

IsLetter(c) ==
    \E k \in 1..26 : Char(UPPERCASE, k) = c \/ Char(LOWERCASE, k) = c

\* capitals only at the start of whitespace-separated words
RECURSIVE title_from_words(_, _)
title_from_words(s, after_letter) ==
    IF Len(s) = 0 THEN ""
    ELSE (IF after_letter THEN LowerChar(Head(s)) ELSE UpperChar(Head(s)))
             \o title_from_words(Tail(s), ~IsSpace(Head(s)))

\* str.title(): a letter after a letter in lower case, any other letter in
\* upper case
RECURSIVE title_from(_, _)
title_from(s, after_letter) ==
    IF Len(s) = 0 THEN ""
    ELSE (IF after_letter THEN LowerChar(Head(s)) ELSE UpperChar(Head(s)))
             \o title_from(Tail(s), IsLetter(Head(s)))

title(s) == title_from(s, FALSE)

_title_case_name(name) ==
    title(replace(replace(name, EM_DASH, "-"), RIGHT_QUOTE, "'"))

\* re.match(r'^\d+[–\-]?\d*\.?$', text)
match_entry_number(text) ==
    IF Len(text) > 0 /\ Char(text, Len(text)) = "."
    THEN match_roll_label(SubSeq(text, 1, Len(text) - 1))
    ELSE match_roll_label(text)

\* the dicts extract_mortals allocates live in a heap, a list of dict
\* values; a reference to a dict is its position in the heap
Allocate(heap, value) == [heap |-> Append(heap, value), ref |-> Len(heap) + 1]

MortalEntry(name) ==
    [name |-> name, description_parts |-> <<>>, flavor |-> <<>>,
     sections |-> EmptyDict]

\* the locals of extract_mortals before pass 1; shared_stats is a reference
mortals_locals(all_spans) ==
    [all_spans |-> all_spans,
     heap |-> <<EmptyDict>>,
     shared_stats |-> 1,
     shared_meta |-> "",
     shared_abilities |-> <<>>,
     in_shared_block |-> FALSE,
     shared_stat_label |-> None,
     shared_stat_values |-> <<>>,
     shared_ability_label |-> None,
     shared_ability_text |-> <<>>,
     shared_state |-> "scanning",
     mortals |-> <<>>,
     current_mortal |-> None,
     current_flavor_label |-> None,
     current_flavor_text |-> <<>>,
     current_section_name |-> None,
     current_section_entries |-> <<>>,
     current_entry_num |-> None,
     current_entry_text |-> <<>>,
     mortal_state |-> "scanning",
     in_skip_zone |-> FALSE,
     result |-> <<>>]

flush_shared_stat(st) ==
    LET value == strip(join(st.shared_stat_values))
        key == compact_stat_key(st.shared_stat_label[1])
        stored ==
            IF st.shared_stat_label # None /\ st.shared_stat_values # <<>>
            THEN [st EXCEPT !.heap[st.shared_stats] = SetItem(@, key, value)]
            ELSE st
    IN  [stored EXCEPT !.shared_stat_label = None,
                       !.shared_stat_values = <<>>]

\* the {"name", "text"} dict of an ability or flavor entry
labelled_text(label, parts) ==
    [name |-> rstrip_char(label, ":"),
     text |-> remove_soft_hyphens(strip(join(parts)))]

flush_shared_ability(st) ==
    LET stored ==
            IF st.shared_ability_label # None /\ st.shared_ability_text # <<>>
            THEN [st EXCEPT !.shared_abilities =
                     Append(@, labelled_text(st.shared_ability_label[1],
                                             st.shared_ability_text))]
            ELSE st
    IN  [stored EXCEPT !.shared_ability_label = None,
                       !.shared_ability_text = <<>>]

\* the flushes at the break and after the loop of pass 1
mortals_pass1_finish(st) ==
    LET s1 == flush_shared_stat(st)
    IN  IF s1.shared_state = "abilities" THEN flush_shared_ability(s1)
        ELSE s1

\* one iteration of the loop of pass 1; stop is TRUE when it breaks
mortals_pass1_step(st, span) ==
    LET text == strip(span.text)
        go(s) == [st |-> s, stop |-> FALSE]
    IN  IF text = "" THEN go(st)
        ELSE IF /\ Contains(span.font, "W9Black")
                /\ Contains(text, "Everyday Mortal")
                /\ ~Contains(text, "Basic")
        THEN go([st EXCEPT !.in_shared_block = TRUE,
                           !.shared_state = "stats"])
        ELSE IF /\ st.in_shared_block
                /\ \/ Contains(span.font, "W9Black") /\ Contains(text, "Basic")
                   \/ is_section_header_font(span)
                   \/ is_appendix_creature_name_font(span)
        THEN [st |-> mortals_pass1_finish(st), stop |-> TRUE]
        ELSE IF ~st.in_shared_block THEN go(st)
        ELSE IF is_page_header_font(span) THEN go(st)
        ELSE IF is_page_number_font(span) /\ isdigit(text) THEN go(st)
        ELSE IF /\ is_meta_font(span) /\ st.shared_state = "stats"
                /\ st.shared_meta = ""
        THEN go([st EXCEPT !.shared_meta = text])
        ELSE IF is_stat_label_font(span) /\ st.shared_state = "stats"
        THEN go([flush_shared_stat(st)
                    EXCEPT !.shared_stat_label = Some(text)])
        ELSE IF /\ st.shared_state = "stats" /\ st.shared_stat_label # None
                /\ (Contains(span.font, "W5Plain")
                    \/ Contains(span.font, "Itali"))
        THEN go([st EXCEPT !.shared_stat_values = Append(@, text)])
        ELSE IF /\ is_ability_label_font(span)
                /\ st.shared_state \in {"stats", "abilities"}
        THEN LET s1 == IF st.shared_state = "stats"
                       THEN [flush_shared_stat(st)
                                EXCEPT !.shared_state = "abilities"]
                       ELSE st
             IN  go([flush_shared_ability(s1)
                        EXCEPT !.shared_ability_label = Some(text)])
        ELSE IF /\ st.shared_state = "abilities"
                /\ st.shared_ability_label # None
                /\ (is_body_text_font(span) \/ Contains(span.font, "Itali"))
        THEN go([st EXCEPT !.shared_ability_text = Append(@, text)])
        ELSE go(st)

flush_mortal_flavor(st) ==
    LET stored ==
            IF /\ st.current_flavor_label # None
               /\ st.current_flavor_text # <<>>
               /\ st.current_mortal # None
            THEN [st EXCEPT !.current_mortal[1].flavor =
                     Append(@, labelled_text(st.current_flavor_label[1],
                                             st.current_flavor_text))]
            ELSE st
    IN  [stored EXCEPT !.current_flavor_label = None,
                       !.current_flavor_text = <<>>]

flush_mortal_section_entry(st) ==
    LET stored ==
            IF st.current_entry_num # None /\ st.current_entry_text # <<>>
            THEN [st EXCEPT !.current_section_entries =
                     Append(@, [roll |-> st.current_entry_num[1],
                                text |-> remove_soft_hyphens(
                                    strip(join(st.current_entry_text)))])]
            ELSE st
    IN  [stored EXCEPT !.current_entry_num = None,
                       !.current_entry_text = <<>>]

flush_mortal_section(st) ==
    LET s1 == flush_mortal_section_entry(st)
        stored ==
            IF /\ s1.current_section_name # None
               /\ s1.current_section_entries # <<>>
               /\ s1.current_mortal # None
            THEN [s1 EXCEPT !.current_mortal[1].sections =
                     SetItem(@, s1.current_section_name[1],
                             s1.current_section_entries)]
            ELSE s1
    IN  [stored EXCEPT !.current_section_name = None,
                       !.current_section_entries = <<>>]

\* save_mortal keeping only a mortal that has gathered something
save_mortal_with_content(st) ==
    LET s1 == flush_mortal_section(flush_mortal_flavor(st))
        m == s1.current_mortal[1]
        saved ==
            IF /\ s1.current_mortal # None /\ m.name # ""
               /\ \/ m.description_parts # <<>> \/ m.flavor # <<>>
                  \/ DOMAIN m.sections # {}
            THEN [s1 EXCEPT !.mortals =
                     Append(@, IF m.description_parts # <<>>
                               THEN [m EXCEPT !.description_parts =
                                        <<strip(join(m.description_parts))>>]
                               ELSE m)]
            ELSE s1
    IN  [saved EXCEPT !.current_mortal = None, !.mortal_state = "scanning"]

save_mortal(st) ==
    LET s1 == flush_mortal_section(flush_mortal_flavor(st))
        m == s1.current_mortal[1]
        saved ==
            IF s1.current_mortal # None /\ m.name # ""
            THEN [s1 EXCEPT !.mortals =
                     Append(@, IF m.description_parts # <<>>
                               THEN [m EXCEPT !.description_parts =
                                        <<strip(join(m.description_parts))>>]
                               ELSE m)]
            ELSE s1
    IN  [saved EXCEPT !.current_mortal = None, !.mortal_state = "scanning"]

\* the loop body of pass 2 once a mortal entry is open
mortals_entry_step(st, span, text) ==
    IF is_section_header_font(span)
    THEN [flush_mortal_section(flush_mortal_flavor(st)) EXCEPT
             !.current_section_name = Some(strip(text)),
             !.current_section_entries = <<>>,
             !.mortal_state = "section"]
    ELSE IF /\ is_ability_label_font(span)
            /\ st.mortal_state \in {"description", "flavor"}
    THEN [flush_mortal_flavor([st EXCEPT !.mortal_state = "flavor"])
             EXCEPT !.current_flavor_label = Some(text)]
    ELSE IF /\ st.mortal_state = "section"
            /\ is_ability_label_font(span) /\ match_entry_number(text)
    THEN [flush_mortal_section_entry(st)
             EXCEPT !.current_entry_num = Some(rstrip_char(text, "."))]
    ELSE IF /\ st.mortal_state = "section"
            /\ \/ is_ability_label_font(span)
               \/ Contains(span.font, "BoldItalic")
               \/ /\ is_body_text_font(span) \/ Contains(span.font, "Itali")
                  /\ span.size < 95
    THEN [st EXCEPT !.current_entry_text = Append(@, text)]
    ELSE IF st.mortal_state = "description" /\ is_body_text_font(span)
    THEN [st EXCEPT !.current_mortal[1].description_parts = Append(@, text)]
    ELSE IF /\ st.mortal_state = "flavor" /\ st.current_flavor_label # None
            /\ (is_body_text_font(span) \/ Contains(span.font, "Itali"))
    THEN [st EXCEPT !.current_flavor_text = Append(@, text)]
    ELSE st

\* one iteration of the loop of pass 2, the sidebar marker setting the flag
\* without saving the mortal in progress
mortals_pass2_step_flag_only(st, span) ==
    LET text == strip(span.text)
    IN  IF text = "" THEN st
        ELSE IF is_page_header_font(span) THEN st
        ELSE IF is_page_number_font(span) /\ isdigit(text) THEN st
        ELSE IF is_section_title_font(span) THEN st
        ELSE IF is_description_font(span) THEN st
        ELSE IF is_drop_cap_font(span) THEN st
        ELSE IF Contains(span.font, "W9Black")
        THEN [st EXCEPT !.in_skip_zone = TRUE]
        ELSE IF st.in_skip_zone /\ ~is_appendix_creature_name_font(span)
        THEN st
        ELSE IF is_appendix_creature_name_font(span)
        THEN [save_mortal(st) EXCEPT
                 !.in_skip_zone = FALSE,
                 !.current_mortal = Some(MortalEntry(_title_case_name(text))),
                 !.mortal_state = "description"]
        ELSE IF st.current_mortal = None THEN st
        ELSE mortals_entry_step(st, span, text)

\* one iteration of the loop of pass 2
mortals_pass2_step(st, span) ==
    LET text == strip(span.text)
    IN  IF text = "" THEN st
        ELSE IF is_page_header_font(span) THEN st
        ELSE IF is_page_number_font(span) /\ isdigit(text) THEN st
        ELSE IF is_section_title_font(span) THEN st
        ELSE IF is_description_font(span) THEN st
        ELSE IF is_drop_cap_font(span) THEN st
        ELSE IF Contains(span.font, "W9Black")
        THEN IF ~st.in_skip_zone
             THEN [save_mortal(st) EXCEPT !.in_skip_zone = TRUE]
             ELSE st
        ELSE IF st.in_skip_zone /\ ~is_appendix_creature_name_font(span)
        THEN st
        ELSE IF is_appendix_creature_name_font(span)
        THEN [save_mortal(st) EXCEPT
                 !.in_skip_zone = FALSE,
                 !.current_mortal = Some(MortalEntry(_title_case_name(text))),
                 !.mortal_state = "description"]
        ELSE IF st.current_mortal = None THEN st
        ELSE mortals_entry_step(st, span, text)

\* one iteration of the loop that builds the output; entry["stats"] is a
\* reference into the heap
merge_mortal_shared_reference(st, m) ==
    LET entry ==
            ("name" :> m.name)
            @@ (IF m.description_parts # <<>>
                THEN "description" :> remove_soft_hyphens(m.description_parts[1])
                ELSE EmptyDict)
            @@ (IF st.shared_meta # "" THEN "meta" :> st.shared_meta
                ELSE EmptyDict)
            @@ (IF DOMAIN st.heap[st.shared_stats] # {}
                THEN "stats" :> st.shared_stats ELSE EmptyDict)
            @@ (IF m.flavor # <<>> \/ st.shared_abilities # <<>>
                THEN "abilities" :> (m.flavor \o st.shared_abilities)
                ELSE EmptyDict)
            @@ (IF DOMAIN m.sections # {} THEN "sections" :> m.sections
                ELSE EmptyDict)
    IN  [st EXCEPT !.result = Append(@, entry)]

merge_mortal(st, m) ==
    LET copy == Allocate(st.heap, st.heap[st.shared_stats])
        entry ==
            ("name" :> m.name)
            @@ (IF m.description_parts # <<>>
                THEN "description" :> remove_soft_hyphens(m.description_parts[1])
                ELSE EmptyDict)
            @@ (IF st.shared_meta # "" THEN "meta" :> st.shared_meta
                ELSE EmptyDict)
            @@ (IF DOMAIN st.heap[st.shared_stats] # {}
                THEN "stats" :> copy.ref ELSE EmptyDict)
            @@ (IF m.flavor # <<>> \/ st.shared_abilities # <<>>
                THEN "abilities" :> (m.flavor \o st.shared_abilities)
                ELSE EmptyDict)
            @@ (IF DOMAIN m.sections # {} THEN "sections" :> m.sections
                ELSE EmptyDict)
    IN  [st EXCEPT !.result = Append(@, entry),
                   !.heap = IF DOMAIN st.heap[st.shared_stats] # {}
                            THEN copy.heap ELSE @]

\* pass 1 from the i-th span on
RECURSIVE mortals_pass1(_, _)
mortals_pass1(st, i) ==
    IF i > Len(st.all_spans) THEN mortals_pass1_finish(st)
    ELSE LET r == mortals_pass1_step(st, st.all_spans[i])
         IN  IF r.stop THEN r.st ELSE mortals_pass1(r.st, i + 1)

-----------------------------------------------------------------------------
(* Specification SpecMortals: extract_mortals on a section of two pages,   *)
(* named entries on the first and the shared block on the second, and a    *)
(* caller that changes the stats of one returned record                    *)

MaxFlavor == 1

AppendixName(text) == Span(text, "AlverataBl", 160)

SidebarMarker(text) == Span(text, "TheAntiquaB-W9Black", 100)

FlavorUnits ==
    {<<AbilityLabel("Catch:"), BodyText("Fresh"), BodyText("fish")>>,
     <<AbilityLabel("Plea:"), ItalicText("Alms")>>}

RECURSIVE FlavorRuns(_)
FlavorRuns(n) ==
    IF n = 0 THEN {<<>>}
    ELSE LET shorter == FlavorRuns(n - 1)
         IN  shorter \cup {r \o u : r \in shorter, u \in FlavorUnits}

\* a named entry: its name, a description, its flavor abilities
MortalEntries(name) ==
    {<<AppendixName(name), BodyText("Found by the water")>> \o f
        : f \in FlavorRuns(MaxFlavor)}

\* the shared block: the marker, then a meta line, stats, an ability and
\* the Basic Details table, each printed or not
SharedBlocks ==
    {<<SidebarMarker("Everyday Mortal")>> \o meta \o stats \o ability \o basic
        : meta \in {<<>>, <<MetaLine("Small/Medium mortal")>>},
          stats \in {<<>>, <<StatLabel("Level"), StatValue("1"),
                             StatLabel("HP"), StatValue("1d4")>>},
          ability \in {<<>>, <<AbilityLabel("Weapons:"),
                               BodyText("Club or dagger")>>},
          basic \in {<<>>, <<SidebarMarker("Basic Details"),
                             BodyText("d6 Sex")>>}}

\* the spans of a page, each with the box of its own line
PlacedInOrder(page) == [i \in 1..Len(page) |-> Placed(page[i], i)]

MortalsDocuments ==
    {(110 :> PlacedInOrder(a \o b)) @@ (111 :> PlacedInOrder(s))
        : a \in MortalEntries("ANGLER"), b \in MortalEntries("BEGGAR"),
          s \in SharedBlocks}

InitMortals ==
    /\ Idle("call")
    /\ pc = "collect"
    /\ args \in {[doc |-> d, start_page |-> 110, end_page |-> 112]
                    : d \in MortalsDocuments}
    /\ locals = <<>>
    /\ ret = None

CollectMortalSpans ==
    /\ pc = "collect"
    /\ locals' = [i |-> 1, mutated |-> 0,
                  st |-> mortals_locals(
                             collect_page_range(args.doc, args.start_page,
                                                args.end_page))]
    /\ pc' = "pass 1"
    /\ UNCHANGED <<args, ret>>
    /\ Frame("call")

Pass1Span ==
    /\ pc = "pass 1"
    /\ locals.i <= Len(locals.st.all_spans)
    /\ LET r == mortals_pass1_step(locals.st, locals.st.all_spans[locals.i])
       IN  /\ locals' = [locals EXCEPT !.st = r.st,
                                       !.i = IF r.stop THEN 1 ELSE @ + 1]
           /\ pc' = IF r.stop THEN "pass 2" ELSE pc
    /\ UNCHANGED <<args, ret>>
    /\ Frame("call")

Pass1End ==
    /\ pc = "pass 1"
    /\ locals.i > Len(locals.st.all_spans)
    /\ locals' = [locals EXCEPT !.st = mortals_pass1_finish(@), !.i = 1]
    /\ pc' = "pass 2"
    /\ UNCHANGED <<args, ret>>
    /\ Frame("call")

Pass2Span ==
    /\ pc = "pass 2"
    /\ locals.i <= Len(locals.st.all_spans)
    /\ locals' = [locals EXCEPT
                     !.st = mortals_pass2_step(@, @.all_spans[locals.i]),
                     !.i = @ + 1]
    /\ UNCHANGED <<pc, args, ret>>
    /\ Frame("call")

Pass2End ==
    /\ pc = "pass 2"
    /\ locals.i > Len(locals.st.all_spans)
    /\ locals' = [locals EXCEPT !.st = save_mortal(@), !.i = 1]
    /\ pc' = "merge"
    /\ UNCHANGED <<args, ret>>
    /\ Frame("call")

MergeMortal ==
    /\ pc = "merge"
    /\ locals.i <= Len(locals.st.mortals)
    /\ locals' = [locals EXCEPT
                     !.st = merge_mortal(@, @.mortals[locals.i]),
                     !.i = @ + 1]
    /\ UNCHANGED <<pc, args, ret>>
    /\ Frame("call")

ReturnMortals ==
    /\ pc = "merge"
    /\ locals.i > Len(locals.st.mortals)
    /\ ret' = locals.st.result
    /\ pc' = "return"
    /\ UNCHANGED <<args, locals>>
    /\ Frame("call")

\* the caller sets a key of the stats of one returned record
MutateStats ==
    /\ pc = "return"
    /\ \E k \in 1..Len(ret) : \E key \in {"hp", "xp"} :
           /\ "stats" \in DOMAIN ret[k]
           /\ locals' = [locals EXCEPT
                            !.mutated = k,
                            !.st.heap[ret[k].stats] = SetItem(@, key, "99")]
    /\ pc' = "mutated"
    /\ UNCHANGED <<args, ret>>
    /\ Frame("call")

NextMortals ==
    \/ CollectMortalSpans \/ Pass1Span \/ Pass1End \/ Pass2Span \/ Pass2End
    \/ MergeMortal \/ ReturnMortals \/ MutateStats

SpecMortals == InitMortals /\ [][NextMortals]_vars

\* the shared block as pass 1 leaves it
SharedBlock == mortals_pass1(mortals_locals(locals.st.all_spans), 1)

SharedStats == SharedBlock.heap[SharedBlock.shared_stats]

\* the value of a key of an output record; an absent key carries nothing
MetaOfRecord(entry) == IF "meta" \in DOMAIN entry THEN entry.meta ELSE ""

StatsOfRecord(entry) ==
    IF "stats" \in DOMAIN entry THEN locals.st.heap[entry.stats]
    ELSE EmptyDict

\* C2: every named mortal has a record; it carries the shared meta, a stats
\* map equal to the shared one but a map of its own (no other record and
\* not the shared block refer to it), and its own flavor abilities followed
\* by the shared abilities; after the caller has changed one record's
\* stats, every other record's stats and the shared map are as before.
C2_MortalsMerge ==
    /\ pc \in {"return", "mutated"} =>
           /\ Len(ret) = Len(locals.st.mortals)
           /\ locals.st.heap[locals.st.shared_stats] = SharedStats
           /\ \A k \in 1..Len(ret) :
                  /\ ret[k].name = locals.st.mortals[k].name
                  /\ MetaOfRecord(ret[k]) = SharedBlock.shared_meta
                  /\ AbilitiesOf(ret[k]) =
                         locals.st.mortals[k].flavor
                             \o SharedBlock.shared_abilities
                  /\ "stats" \in DOMAIN ret[k] <=> DOMAIN SharedStats # {}
                  /\ "stats" \in DOMAIN ret[k] =>
                         /\ ret[k].stats # locals.st.shared_stats
                         /\ \A j \in 1..Len(ret) :
                                j # k => ret[j].stats # ret[k].stats
                  /\ k # locals.mutated =>
                         StatsOfRecord(ret[k]) = SharedStats

\* Angler and Beggar, each with a flavor ability, share level and hp; the
\* caller has changed Angler's hp and Beggar's is as extracted
C2_Witness ==
    /\ pc = "mutated" /\ locals.mutated = 1
    /\ Len(ret) = 2
    /\ ret[1].name = "Angler" /\ ret[2].name = "Beggar"
    /\ StatsOfRecord(ret[1]) = [level |-> "1", hp |-> "99"]
    /\ StatsOfRecord(ret[2]) = [level |-> "1", hp |-> "1d4"]
    /\ SharedStats = [level |-> "1", hp |-> "1d4"]
    /\ AbilitiesOf(ret[1]) =
           <<[name |-> "Catch", text |-> "Fresh fish"],
             [name |-> "Weapons", text |-> "Club or dagger"]>>
    /\ AbilitiesOf(ret[2]) =
           <<[name |-> "Plea", text |-> "Alms"],
             [name |-> "Weapons", text |-> "Club or dagger"]>>
    /\ MetaOfRecord(ret[2]) = "Small/Medium mortal"

-----------------------------------------------------------------------------
(* extract_dcb_treasure.py: span classification and table boundaries       *)

is_section_header(span) ==
    Contains(span.font, "AlegreyaSans") /\ span.size > 130

is_column_header(span) ==
    /\ Contains(span.font, "W7Bold") /\ ~Contains(span.font, "Italic")
    /\ 95 < span.size /\ span.size < 105

is_row_label(span) ==
    /\ Contains(span.font, "W7Bold") /\ ~Contains(span.font, "Italic")
    /\ 80 <= span.size /\ span.size <= 90

is_cell_value(span) ==
    /\ Contains(span.font, "W5Plain") /\ 80 <= span.size /\ span.size <= 90
    /\ ~Contains(span.font, "Itali")

is_cell_value_italic(span) ==
    /\ Contains(span.font, "W5Plain") /\ Contains(span.font, "Itali")
    /\ 80 <= span.size /\ span.size <= 90

is_page_ref(span) ==
    Contains(span.font, "W7BoldItalic") /\ 80 <= span.size /\ span.size <= 90

is_page_title(span) == Contains(span.font, "Winona") /\ span.size > 400

is_subsection_title(span) ==
    Contains(span.font, "AlverataBl") /\ span.size > 140

is_page_header(span) ==
    Contains(span.font, "Alverata-Bold") /\ span.size < 85

is_page_number(span) ==
    Contains(span.font, "W5Plain") /\ 105 < span.size /\ span.size < 120

is_sidebar_header(span) == Contains(span.font, "W9Black")

is_item_subsection_title(span) ==
    Contains(span.font, "Alverata-Bold") /\ 110 < span.size /\ span.size < 140

\* `for i, span in enumerate(spans)` looking for a table's headers, on the
\* answers of its tests for each span: start is set at every span that is a
\* start; the first other span that is an end, or an end once start is set,
\* sets end and breaks. start and end are optional 0-based positions
RECURSIVE scan_bounds(_, _, _, _, _)
scan_bounds(starts, ends, ends_started, i, start) ==
    IF i >= Len(starts) THEN [start |-> start, end |-> None]
    ELSE IF starts[i + 1]
    THEN scan_bounds(starts, ends, ends_started, i + 1, Some(i))
    ELSE IF ends[i + 1] \/ (start # None /\ ends_started[i + 1])
    THEN [start |-> start, end |-> Some(i)]
    ELSE scan_bounds(starts, ends, ends_started, i + 1, start)

find_bounds(starts, ends, ends_started) ==
    scan_bounds(starts, ends, ends_started, 0, None)

\* the first 0-based position from `from` on that is marked, if any
RECURSIVE find_end(_, _)
find_end(marked, from) ==
    IF from >= Len(marked) THEN None
    ELSE IF marked[from + 1] THEN Some(from)
    ELSE find_end(marked, from + 1)

\* spans[start + 1 : end] if end else spans[start + 1:]
table_spans(spans, start, end) ==
    IF end # None /\ end[1] # 0
    THEN SubSeq(spans, start + 2, end[1])
    ELSE SubSeq(spans, start + 2, Len(spans))

\* a section header span with exactly this text
is_header_named(span, name) ==
    is_section_header(span) /\ strip(span.text) = name

-----------------------------------------------------------------------------
(* extract_dcb_treasure.py: the hoard tables of page 395                   *)

\* flush_row of the three hoard tables: rows of the table's own letter
hoard_flush_row(st, letter) ==
    [rows |-> IF st.current_row_label # None
                 /\ startswith(st.current_row_label[1], letter)
              THEN Append(st.rows, [label |-> st.current_row_label[1],
                                    cells |-> st.current_cells])
              ELSE st.rows,
     current_row_label |-> None,
     current_cells |-> <<>>,
     stop |-> FALSE]

\* the loop body of the three hoard tables; flush_other is TRUE for
\* extract_coins_table, where any other bold label flushes the row
hoard_rows_step(st, span, letter, flush_other) ==
    LET text == strip(span.text)
    IN  IF text = "" THEN st
        ELSE IF is_column_header(span) THEN st
        ELSE IF is_row_label(span) /\ match_type_code(letter, text)
        THEN [hoard_flush_row(st, letter)
                 EXCEPT !.current_row_label = Some(text)]
        ELSE IF /\ is_cell_value(span) \/ is_cell_value_italic(span)
                /\ st.current_row_label # None
        THEN [st EXCEPT !.current_cells = Append(@, text)]
        ELSE IF flush_other /\ is_row_label(span)
        THEN hoard_flush_row(st, letter)
        ELSE st

hoard_rows_init ==
    [rows |-> <<>>, current_row_label |-> None, current_cells |-> <<>>,
     stop |-> FALSE]

RECURSIVE hoard_rows_loop(_, _, _, _)
hoard_rows_loop(st, spans, letter, flush_other) ==
    IF spans = <<>> \/ st.stop THEN st
    ELSE hoard_rows_loop(hoard_rows_step(st, Head(spans), letter, flush_other),
                         Tail(spans), letter, flush_other)

\* the rows between the two headers, each {"label", "cells"}
hoard_rows(spans, bounds, letter, flush_other) ==
    hoard_flush_row(
        hoard_rows_loop(hoard_rows_init,
                        table_spans(spans, bounds.start[1], bounds.end),
                        letter, flush_other),
        letter).rows

\* the answers of a test for each span of a list
no_span(spans) == [i \in 1..Len(spans) |-> FALSE]

headers_named(spans, name) ==
    [i \in 1..Len(spans) |-> is_header_named(spans[i], name)]

\* the bounds of a table from its header to the header of the next
header_bounds(spans, name, next_name) ==
    find_bounds(headers_named(spans, name), headers_named(spans, next_name),
                no_span(spans))

extract_coins_table(spans) ==
    LET bounds == header_bounds(spans, "COINS", "RICHES")
        rows == hoard_rows(spans, bounds, "C", TRUE)
    IN  IF bounds.start = None THEN <<>>
        ELSE [k \in 1..Len(rows) |->
                 _parse_coins_row(rows[k].label, rows[k].cells)]

extract_riches_table(spans) ==
    LET bounds == header_bounds(spans, "RICHES", "MAGIC ITEMS")
        rows == hoard_rows(spans, bounds, "R", FALSE)
    IN  IF bounds.start = None THEN <<>>
        ELSE [k \in 1..Len(rows) |->
                 _parse_riches_row(rows[k].label, rows[k].cells)]

\* re.match(r'^(\d+)%\s*(.*)', text): the groups, if it matches
chance_items_groups(text) ==
    LET n == PrefixLen(text, Digits)
    IN  IF n >= 1 /\ Len(text) > n /\ Char(text, n + 1) = "%"
        THEN Some(<<SubSeq(text, 1, n),
                    lstrip(SubSeq(text, n + 2, Len(text)))>>)
        ELSE None

_parse_magic_items_row(label, cells) ==
    LET m == chance_items_groups(strip(join(all_but_last(cells))))
    IN  [type |-> label,
         averageValue |-> parse_average_value(last_or_empty(cells))]
        @@ (IF m # None
            THEN [chance |-> int(m[1][1]), items |-> strip(m[1][2])]
            ELSE [items |-> strip(join(all_but_last(cells)))])

extract_magic_items_table(spans) ==
    LET bounds == header_bounds(spans, "MAGIC ITEMS", "MAGIC ITEM TYPE")
        rows == hoard_rows(spans, bounds, "M", FALSE)
    IN  IF bounds.start = None THEN <<>>
        ELSE [k \in 1..Len(rows) |->
                 _parse_magic_items_row(rows[k].label, rows[k].cells)]

-----------------------------------------------------------------------------
(* extract_dcb_treasure.py: range-keyed and numbered tables                *)

\* a row {"min", "max"} of a parsed roll range with more keys
range_row(range, more) == [min |-> range[1], max |-> range[2]] @@ more

\* the flush of extract_magic_item_type_table's loop and of
\* extract_two_column_table: Raised when parse_roll_range raises
type_flush(st) ==
    IF st.raised THEN st
    ELSE IF st.current_range # None /\ st.current_type # None
    THEN LET r == parse_roll_range(st.current_range[1])
         IN  IF r = Raised THEN [st EXCEPT !.raised = TRUE]
             ELSE [st EXCEPT
                      !.result = Append(@, range_row(r.value,
                                     [type |-> st.current_type[1]])),
                      !.current_range = None, !.current_type = None]
    ELSE [st EXCEPT !.current_range = None, !.current_type = None]

type_init ==
    [result |-> <<>>, current_range |-> None, current_type |-> None,
     stop |-> FALSE, raised |-> FALSE]

\* the value a function returns from its locals, or the exception it raised
returned_result(st) == IF st.raised THEN Raised ELSE Returned(st.result)

magic_item_type_step(st, span) ==
    LET text == strip(span.text)
    IN  IF text = "" THEN st
        ELSE IF is_column_header(span) THEN st
        ELSE IF is_row_label(span) /\ match_range(text)
        THEN LET s1 == IF st.current_range # None /\ st.current_type # None
                       THEN type_flush(st) ELSE st
             IN  [s1 EXCEPT !.current_range = Some(text),
                            !.current_type = None,
                            !.stop = s1.raised]
        ELSE IF is_cell_value(span) /\ st.current_range # None
        THEN [st EXCEPT !.current_type = Some(text)]
        ELSE st

RECURSIVE magic_item_type_loop(_, _)
magic_item_type_loop(st, spans) ==
    IF spans = <<>> \/ st.stop THEN st
    ELSE magic_item_type_loop(magic_item_type_step(st, Head(spans)), Tail(spans))

extract_magic_item_type_table(spans) ==
    LET IsEnd(s) ==
            is_section_header(s) /\ startswith(strip(s.text), "COIN APPEARANCE")
        bounds == find_bounds(headers_named(spans, "MAGIC ITEM TYPE"),
                              [i \in 1..Len(spans) |-> IsEnd(spans[i])],
                              no_span(spans))
        st == magic_item_type_loop(
                  type_init, table_spans(spans, bounds.start[1], bounds.end))
    IN  IF bounds.start = None THEN Returned(<<>>)
        ELSE returned_result(
                 IF st.current_range # None /\ st.current_type # None
                 THEN type_flush(st) ELSE st)

\* two_column_step with a second cell value replacing the pending type of the
\* row without a flush
two_column_step_overwrite(st, span) ==
    LET text == strip(span.text)
    IN  IF text = "" THEN st
        ELSE IF is_column_header(span) THEN st
        ELSE IF is_row_label(span) /\ match_roll_label(text)
        THEN LET s1 == type_flush(st)
             IN  [s1 EXCEPT
                     !.current_range =
                         IF match_number(text)
                         THEN Some(text \o "-" \o text) ELSE Some(text),
                     !.stop = s1.raised]
        ELSE IF is_cell_value(span) /\ st.current_range # None
        THEN [st EXCEPT !.current_type = Some(text)]
        ELSE IF is_row_label(span) /\ startswith(text, "*")
        THEN [type_flush(st) EXCEPT !.stop = TRUE]
        ELSE st

two_column_step(st, span) ==
    LET text == strip(span.text)
    IN  IF text = "" THEN st
        ELSE IF is_column_header(span) THEN st
        ELSE IF is_row_label(span) /\ match_roll_label(text)
        THEN LET s1 == type_flush(st)
             IN  [s1 EXCEPT
                     !.current_range =
                         IF match_number(text)
                         THEN Some(text \o "-" \o text) ELSE Some(text),
                     !.stop = s1.raised]
        ELSE IF is_cell_value(span) /\ st.current_range # None
        THEN IF st.current_type = None
             THEN [st EXCEPT !.current_type = Some(text)]
             ELSE LET s1 == type_flush(st)
                  IN  [s1 EXCEPT !.current_type = Some(text),
                                 !.stop = s1.raised]
        ELSE IF is_row_label(span) /\ startswith(text, "*")
        THEN [type_flush(st) EXCEPT !.stop = TRUE]
        ELSE st

RECURSIVE two_column_loop(_, _)
two_column_loop(st, spans) ==
    IF spans = <<>> \/ st.stop THEN st
    ELSE two_column_loop(two_column_step(st, Head(spans)), Tail(spans))

\* extract_two_column_table on the spans of its page; stop_sections is not
\* read by the function
extract_two_column_table(spans, section_name) ==
    LET IsEnd(s) == \/ is_section_header(s)
                    \/ is_subsection_title(s)
                    \/ is_item_subsection_title(s)
        bounds == find_bounds(headers_named(spans, section_name),
                              no_span(spans),
                              [i \in 1..Len(spans) |-> IsEnd(spans[i])])
        st == two_column_loop(
                  type_init, table_spans(spans, bounds.start[1], bounds.end))
    IN  IF bounds.start = None THEN Returned(<<>>)
        ELSE returned_result(type_flush(st))


-----------------------------------------------------------------------------
(* extract_dcb_treasure.py: tables of a roll and its cells                 *)

cells_init ==
    [result |-> <<>>, current_roll |-> None, current_cells |-> <<>>,
     stop |-> FALSE]

coin_appearance_flush(st) ==
    LET cells == st.current_cells
        entry ==
            [roll |-> int(st.current_roll[1])]
            @@ (IF Len(cells) >= 1 THEN [head |-> cells[1]] ELSE <<>>)
            @@ (IF Len(cells) >= 2 THEN [tail |-> cells[2]] ELSE <<>>)
    IN  [st EXCEPT
            !.result = IF st.current_roll # None /\ cells # <<>>
                       THEN Append(@, entry) ELSE @,
            !.current_roll = None, !.current_cells = <<>>]

coin_appearance_step(st, span) ==
    LET text == strip(span.text)
    IN  IF text = "" THEN st
        ELSE IF is_column_header(span) THEN st
        ELSE IF is_row_label(span) /\ match_number(text)
        THEN [coin_appearance_flush(st) EXCEPT !.current_roll = Some(text)]
        ELSE IF is_cell_value(span) /\ st.current_roll # None
        THEN [st EXCEPT !.current_cells = Append(@, text)]
        ELSE IF is_row_label(span)
        THEN [coin_appearance_flush(st) EXCEPT !.stop = TRUE]
        ELSE st

\* the first 0-based position that is marked, if any
find_first(marked) == find_end(marked, 0)

RECURSIVE coin_appearance_loop(_, _)
coin_appearance_loop(st, spans) ==
    IF spans = <<>> \/ st.stop THEN st
    ELSE coin_appearance_loop(coin_appearance_step(st, Head(spans)), Tail(spans))

extract_coin_appearance_table(spans) ==
    LET IsStart(s) ==
            is_section_header(s) /\ startswith(strip(s.text), "COIN APPEARANCE")
        coin_app_start ==
            find_first([i \in 1..Len(spans) |-> IsStart(spans[i])])
    IN  IF coin_app_start = None THEN <<>>
        ELSE coin_appearance_flush(
                 coin_appearance_loop(
                     cells_init,
                     SubSeq(spans, coin_app_start[1] + 2, Len(spans)))).result

gem_value_flush(st) ==
    LET cells == st.current_cells
        entry ==
            range_row(
                parse_roll_range(st.current_roll[1]).value,
                (IF Len(cells) >= 1 THEN [category |-> cells[1]] ELSE <<>>)
                @@ (IF Len(cells) >= 2
                    THEN [value |-> parse_average_value(cells[2])] ELSE <<>>))
    IN  [st EXCEPT
            !.result = IF st.current_roll # None /\ cells # <<>>
                       THEN Append(@, entry) ELSE @,
            !.current_roll = None, !.current_cells = <<>>]

gem_value_step(st, span) ==
    LET text == strip(span.text)
    IN  IF text = "" THEN st
        ELSE IF is_column_header(span) THEN st
        ELSE IF is_row_label(span) /\ match_range(text)
        THEN [gem_value_flush(st) EXCEPT !.current_roll = Some(text)]
        ELSE IF is_cell_value(span) /\ st.current_roll # None
        THEN [st EXCEPT !.current_cells = Append(@, text)]
        ELSE st

RECURSIVE gem_value_loop(_, _)
gem_value_loop(st, spans) ==
    IF spans = <<>> \/ st.stop THEN st
    ELSE gem_value_loop(gem_value_step(st, Head(spans)), Tail(spans))

extract_gem_value_table(spans) ==
    LET bounds == find_bounds(
                      headers_named(spans, "GEM VALUE"),
                      headers_named(spans, "GEM TYPE"),
                      [i \in 1..Len(spans) |-> is_sidebar_header(spans[i])])
    IN  IF bounds.start = None THEN <<>>
        ELSE gem_value_flush(
                 gem_value_loop(
                     cells_init,
                     table_spans(spans, bounds.start[1], bounds.end))).result

side_by_side_init ==
    [result |-> <<>>, current_roll |-> None, current_value |-> None,
     stop |-> FALSE]

side_by_side_flush(st) ==
    [st EXCEPT
        !.result =
            IF st.current_roll # None /\ st.current_value # None
            THEN Append(@, [roll |-> int(st.current_roll[1]),
                            value |-> st.current_value[1]])
            ELSE @,
        !.current_roll = None, !.current_value = None]

\* the loop body with a cell value held until the next flush
side_by_side_step_hold(st, span) ==
    LET text == strip(span.text)
    IN  IF text = "" THEN st
        ELSE IF is_column_header(span) THEN st
        ELSE IF is_row_label(span) /\ match_number(text)
        THEN [side_by_side_flush(st) EXCEPT !.current_roll = Some(text)]
        ELSE IF is_cell_value(span) /\ st.current_roll # None
        THEN [st EXCEPT !.current_value = Some(text)]
        ELSE IF is_row_label(span)
        THEN [side_by_side_flush(st) EXCEPT !.stop = TRUE]
        ELSE st

side_by_side_step(st, span) ==
    LET text == strip(span.text)
    IN  IF text = "" THEN st
        ELSE IF is_column_header(span) THEN st
        ELSE IF is_row_label(span) /\ match_number(text)
        THEN [side_by_side_flush(st) EXCEPT !.current_roll = Some(text)]
        ELSE IF is_cell_value(span) /\ st.current_roll # None
        THEN side_by_side_flush([st EXCEPT !.current_value = Some(text)])
        ELSE IF is_row_label(span)
        THEN [side_by_side_flush(st) EXCEPT !.stop = TRUE]
        ELSE st

RECURSIVE side_by_side_loop(_, _)
side_by_side_loop(st, spans) ==
    IF spans = <<>> \/ st.stop THEN st
    ELSE side_by_side_loop(side_by_side_step(st, Head(spans)), Tail(spans))

extract_side_by_side_d20_table(spans, section_name) ==
    LET IsEnd(s) == \/ is_section_header(s)
                    \/ is_subsection_title(s)
                    \/ is_item_subsection_title(s)
                    \/ is_sidebar_header(s)
        bounds == find_bounds(headers_named(spans, section_name),
                              no_span(spans),
                              [i \in 1..Len(spans) |-> IsEnd(spans[i])])
    IN  IF bounds.start = None THEN <<>>
        ELSE side_by_side_flush(
                 side_by_side_loop(
                     side_by_side_init,
                     table_spans(spans, bounds.start[1], bounds.end))).result


-----------------------------------------------------------------------------
(* extract_dcb_treasure.py: extract_gem_type_table                         *)

categories == <<"Ornamental", "Semi-Precious", "Fancy", "Precious", "Gemstone">>

\* the left edges of the column headers other than the d12 one
RECURSIVE gem_col_x(_)
gem_col_x(spans) ==
    IF spans = <<>> THEN <<>>
    ELSE (IF /\ is_column_header(Head(spans))
             /\ ~startswith(strip(Head(spans).text), "d12")
          THEN <<Head(spans).bbox[1]>> ELSE <<>>)
         \o gem_col_x(Tail(spans))

\* the 0-based column of a left edge x: the rightmost column that starts at
\* most 5pt to its right, else column 0
get_column(col_x, x) ==
    LET fits == {i \in 0..(Len(col_x) - 1) : x >= col_x[i + 1] - 50}
    IN  IF fits = {} THEN 0
        ELSE CHOOSE i \in fits : \A j \in fits : j <= i

\* str.rfind(" "): the 0-based position of the last space, or -1
rfind_space(s) ==
    LET at == {i \in 1..Len(s) : Char(s, i) = " "}
    IN  IF at = {} THEN -1
        ELSE (CHOOSE i \in at : \A j \in at : j <= i) - 1

\* row_cells with text added to the cell of column col
gem_add_cell(row_cells, col, text) ==
    IF col \in DOMAIN row_cells
    THEN [row_cells EXCEPT ![col] = @ \o " " \o text]
    ELSE (col :> text) @@ row_cells

gem_type_init ==
    [result |-> [cat \in {categories[i] : i \in 1..Len(categories)} |-> <<>>],
     current_roll |-> None, row_cells |-> EmptyDict, stop |-> FALSE]

RECURSIVE gem_append_row(_, _, _)
gem_append_row(result, row_cells, i) ==
    IF i >= Len(categories) THEN result
    ELSE gem_append_row(
             IF i \in DOMAIN row_cells
             THEN [result EXCEPT ![categories[i + 1]] = Append(@, row_cells[i])]
             ELSE result,
             row_cells, i + 1)

gem_type_flush(st) ==
    [st EXCEPT
        !.result = IF st.current_roll # None
                   THEN gem_append_row(@, st.row_cells, 0) ELSE @,
        !.current_roll = None, !.row_cells = EmptyDict]

\* the cell branch of the loop: a span reaching more than 5pt into the next
\* column is cut at the last space before the column's share of its characters
gem_type_cell(st, col_x, span, text) ==
    LET col == get_column(col_x, span.bbox[1])
        cell_right == span.bbox[3]
        next_col_x == IF col + 1 < Len(col_x) THEN col_x[col + 2] ELSE 99990
        span_left == span.bbox[1]
        span_width == cell_right - span_left
        char_split == (Len(text) * (next_col_x - span_left)) \div span_width
        last_space == rfind_space(SubSeq(text, 1, char_split))
        cut == IF last_space > 0 THEN last_space ELSE char_split
        left_part == strip(SubSeq(text, 1, cut))
        right_part == strip(SubSeq(text, cut + 1, Len(text)))
        with_left == IF left_part # ""
                     THEN gem_add_cell(st.row_cells, col, left_part)
                     ELSE st.row_cells
    IN  IF cell_right > next_col_x + 50
        THEN [st EXCEPT !.row_cells =
                 IF right_part # ""
                 THEN gem_add_cell(with_left, col + 1, right_part)
                 ELSE with_left]
        ELSE [st EXCEPT !.row_cells = gem_add_cell(@, col, text)]

gem_type_step(st, col_x, span) ==
    LET text == strip(span.text)
    IN  IF text = "" THEN st
        ELSE IF is_column_header(span) THEN st
        ELSE IF is_row_label(span) /\ match_number(text)
        THEN [gem_type_flush(st) EXCEPT !.current_roll = Some(text)]
        ELSE IF is_cell_value(span) /\ st.current_roll # None
        THEN gem_type_cell(st, col_x, span, text)
        ELSE IF is_row_label(span) /\ startswith(text, "*")
        THEN [gem_type_flush(st) EXCEPT !.stop = TRUE]
        ELSE st

RECURSIVE gem_type_loop(_, _, _)
gem_type_loop(st, spans, col_x) ==
    IF spans = <<>> \/ st.stop THEN st
    ELSE gem_type_loop(gem_type_step(st, col_x, Head(spans)), Tail(spans), col_x)

\* the dict of category -> gem names; {} when the header is not found
extract_gem_type_table(spans) ==
    LET IsEnd(s) == is_section_header(s) \/ is_subsection_title(s)
        bounds == find_bounds(headers_named(spans, "GEM TYPE"),
                              no_span(spans),
                              [i \in 1..Len(spans) |-> IsEnd(spans[i])])
        table == table_spans(spans, bounds.start[1], bounds.end)
    IN  IF bounds.start = None THEN EmptyDict
        ELSE gem_type_flush(
                 gem_type_loop(gem_type_init, table, gem_col_x(table))).result


-----------------------------------------------------------------------------
(* extract_dcb_treasure.py: the summary tables of the magic item chapters   *)

SUMMARY_TABLE_SECTIONS ==
    <<<<399, "AMULETS AND TALISMANS", "amulets">>,
      <<403, "BALMS AND OILS", "magicBalms">>,
      <<405, "MAGIC CRYSTALS", "magicCrystals">>,
      <<407, "MAGIC GARMENTS", "magicGarments">>,
      <<411, "MAGIC RINGS", "magicRings">>,
      <<415, "POTIONS", "potions">>,
      <<421, "WONDROUS ITEMS", "wondrousItems">>>>

GENERATION_TABLE_SECTIONS ==
    <<<<401, 403, "magicArmour">>,
      <<409, 411, "magicInstruments">>,
      <<413, 415, "magicWeapons">>,
      <<417, 419, "rodsStavesWands">>,
      <<419, 421, "scrollsBooks">>>>

\* len(doc)
len(doc) == doc.len

min(a, b) == IF a <= b THEN a ELSE b

\* the spans of the pages start_page .. end_page - 1 that the document has
spans_of_pages(doc, start_page, end_page) ==
    collect_page_range(doc.pages, start_page, min(end_page, len(doc)))

\* the last 0-based position that is marked, if any
\* find_last keeping the first match
find_last_first_match(marked) ==
    LET at == {i \in 0..(Len(marked) - 1) : marked[i + 1]}
    IN  IF at = {} THEN None
        ELSE Some(CHOOSE i \in at : \A j \in at : i <= j)

find_last(marked) ==
    LET at == {i \in 0..(Len(marked) - 1) : marked[i + 1]}
    IN  IF at = {} THEN None
        ELSE Some(CHOOSE i \in at : \A j \in at : j <= i)

\* re.match(r'^[\d,]+$', text)
match_digits_commas(text) ==
    Len(text) > 0 /\ \A i \in 1..Len(text) : Char(text, i) \in Digits \cup {","}

\* re.match(r'^([\d]+)', ...) on the cell without commas and spaces: the
\* number, or 0 without a match
subtable_value(cell) ==
    LET value_text == replace(replace(cell, ",", ""), " ", "")
        n == PrefixLen(value_text, Digits)
    IN  IF n > 0 THEN int(SubSeq(value_text, 1, n)) ELSE 0

subtable_init == [result |-> <<>>, current_cells |-> <<>>, stop |-> FALSE]

subtable_flush(st) ==
    [st EXCEPT
        !.result =
            IF Len(st.current_cells) >= 3
            THEN Append(@, [name |-> st.current_cells[1],
                            value |-> subtable_value(st.current_cells[2]),
                            summary |->
                                strip(join(SubSeq(st.current_cells, 3,
                                                  Len(st.current_cells))))])
            ELSE @,
        !.current_cells = <<>>]

subtable_step(st, span) ==
    LET text == strip(span.text)
    IN  IF text = "" THEN st
        ELSE IF is_column_header(span) THEN st
        ELSE IF is_row_label(span)
        THEN [subtable_flush(st) EXCEPT !.stop = TRUE]
        ELSE IF is_cell_value(span) \/ is_cell_value_italic(span)
        THEN LET s1 == IF /\ Len(st.current_cells) >= 3
                          /\ ~match_digits_commas(text)
                          /\ ~startswith(text, "+")
                          /\ ~startswith(text, EN_DASH)
                       THEN subtable_flush(st) ELSE st
             IN  [s1 EXCEPT !.current_cells = Append(@, text)]
        ELSE st

RECURSIVE subtable_loop(_, _)
subtable_loop(st, spans) ==
    IF spans = <<>> \/ st.stop THEN st
    ELSE subtable_loop(subtable_step(st, Head(spans)), Tail(spans))

extract_magic_item_subtable(doc, page_idx, section_name) ==
    LET all_spans == spans_of_pages(doc, page_idx, page_idx + 2)
        IsEnd(s) ==
            \/ is_section_header(s) /\ strip(s.text) # section_name
            \/ is_sidebar_header(s)
            \/ is_page_title(s)
        start == find_last(headers_named(all_spans, section_name))
        end == find_end([i \in 1..Len(all_spans) |-> IsEnd(all_spans[i])],
                        start[1] + 1)
    IN  IF start = None THEN <<>>
        ELSE subtable_flush(
                 subtable_loop(subtable_init,
                               table_spans(all_spans, start[1], end))).result


-----------------------------------------------------------------------------
(* extract_dcb_treasure.py: the generation sub-tables                      *)

IsAlnum(c) == IsLetter(c) \/ IsDigit(c)

\* the clean-up with the other characters taken out, not replaced by a space
RECURSIVE camel_cleaned_removed(_)
camel_cleaned_removed(header) ==
    IF Len(header) = 0 THEN ""
    ELSE (IF IsAlnum(Head(header)) \/ IsSpace(Head(header))
          THEN Head(header) ELSE "")
         \o camel_cleaned_removed(Tail(header))

\* re.sub(r'[^a-zA-Z0-9\s]', ' ', header)
RECURSIVE camel_cleaned(_)
camel_cleaned(header) ==
    IF Len(header) = 0 THEN ""
    ELSE (IF IsAlnum(Head(header)) \/ IsSpace(Head(header))
          THEN Head(header) ELSE " ")
         \o camel_cleaned(Tail(header))

\* str.split(): the runs of non-space characters
RECURSIVE split_whitespace(_)
split_whitespace(s) ==
    LET t == lstrip(s)
        n == PrefixLen(t, {Char(t, i) : i \in 1..Len(t)} \ {" "})
    IN  IF t = "" THEN <<>>
        ELSE <<SubSeq(t, 1, n)>> \o split_whitespace(SubSeq(t, n + 1, Len(t)))

\* str.capitalize()
capitalize(w) ==
    IF Len(w) = 0 THEN "" ELSE UpperChar(Head(w)) \o lower(Tail(w))

RECURSIVE capitalize_all(_)
capitalize_all(words) ==
    IF words = <<>> THEN ""
    ELSE capitalize(Head(words)) \o capitalize_all(Tail(words))

\* _to_camel_case with the other characters taken out before the split
_to_camel_case_removed(header) ==
    LET words == split_whitespace(camel_cleaned_removed(header))
    IN  IF words = <<>> THEN lower(header)
        ELSE lower(words[1]) \o capitalize_all(Tail(words))

_to_camel_case(header) ==
    LET words == split_whitespace(camel_cleaned(header))
    IN  IF words = <<>> THEN lower(header)
        ELSE lower(words[1]) \o capitalize_all(Tail(words))

\* the loop body of _parse_generation_table_rows
generation_step(st, span) ==
    LET text == strip(span.text)
    IN  IF text = "" THEN st
        ELSE IF is_column_header(span) THEN st
        ELSE IF is_page_title(span) \/ is_subsection_title(span) THEN st
        ELSE IF is_page_header(span) \/ is_page_number(span) THEN st
        ELSE IF is_description_font(span) THEN st
        ELSE IF is_row_label(span)
        THEN IF match_roll_label(text)
             THEN [generation_flush(st) EXCEPT !.current_label = Some(text)]
             ELSE generation_flush(st)
        ELSE IF /\ is_cell_value(span) \/ is_cell_value_italic(span)
                /\ st.current_label # None
        THEN [st EXCEPT !.current_cells = Append(@, text)]
        ELSE st

RECURSIVE generation_loop(_, _)
generation_loop(st, spans) ==
    IF spans = <<>> THEN st
    ELSE generation_loop(generation_step(st, Head(spans)), Tail(spans))

_parse_generation_table_rows(spans) ==
    generation_flush(generation_loop(GenInit, spans)).rows

\* the split of the pooled spans into (name, spans) sections at the
\* section headers
RECURSIVE generation_sections(_, _, _, _)
generation_sections(all_spans, sections, current_name, current_spans) ==
    IF all_spans = <<>>
    THEN IF current_name # None
         THEN Append(sections, <<current_name[1], current_spans>>)
         ELSE sections
    ELSE LET span == Head(all_spans)
             text == strip(span.text)
         IN  IF text = ""
             THEN generation_sections(Tail(all_spans), sections,
                                      current_name, current_spans)
             ELSE IF is_section_header(span)
             THEN generation_sections(
                      Tail(all_spans),
                      IF current_name # None
                      THEN Append(sections, <<current_name[1], current_spans>>)
                      ELSE sections,
                      Some(text), <<>>)
             ELSE generation_sections(
                      Tail(all_spans), sections, current_name,
                      IF current_name # None
                      THEN Append(current_spans, span) ELSE current_spans)

\* the dict of camelCase key -> rows; a later section of the same key
\* replaces an earlier one
RECURSIVE generation_result(_, _)
generation_result(sections, result) ==
    IF sections = <<>> THEN result
    ELSE generation_result(
             Tail(sections),
             SetItem(result, _to_camel_case(Head(sections)[1]),
                     _parse_generation_table_rows(Head(sections)[2])))

extract_generation_subtables(doc, start_page_idx, end_page_idx) ==
    generation_result(
        generation_sections(
            spans_of_pages(doc, start_page_idx, end_page_idx),
            <<>>, None, <<>>),
        EmptyDict)

-----------------------------------------------------------------------------
(* extract_dcb_treasure.py: extract_treasure_hoard_table                   *)

\* the truth value of an optional number: None and 0 are false
truthy(opt) == opt # None /\ opt[1] # 0

treasure_hoard_flush(st) ==
    LET cells == st.current_cells
        avg_val == IF Len(cells) > 1
                   THEN parse_average_value(cells[Len(cells)]) ELSE None
        description == IF truthy(avg_val) /\ Len(cells) > 1
                       THEN join(all_but_last(cells)) ELSE join(cells)
    IN  [st EXCEPT
            !.result =
                IF st.current_roll # None /\ cells # <<>>
                THEN Append(@, range_row(
                         parse_roll_range(st.current_roll[1]).value,
                         [description |-> strip(description),
                          averageValue |-> avg_val]))
                ELSE @,
            !.current_roll = None, !.current_cells = <<>>]

treasure_hoard_step(st, span) ==
    LET text == strip(span.text)
    IN  IF text = "" THEN st
        ELSE IF is_column_header(span) THEN st
        ELSE IF is_row_label(span) /\ match_range(text)
        THEN [treasure_hoard_flush(st) EXCEPT !.current_roll = Some(text)]
        ELSE IF /\ is_cell_value(span) \/ is_cell_value_italic(span)
                /\ st.current_roll # None
        THEN [st EXCEPT !.current_cells = Append(@, text)]
        ELSE st

RECURSIVE treasure_hoard_loop(_, _)
treasure_hoard_loop(st, spans) ==
    IF spans = <<>> \/ st.stop THEN st
    ELSE treasure_hoard_loop(treasure_hoard_step(st, Head(spans)), Tail(spans))

extract_treasure_hoard_table(spans) ==
    LET IsEnd(s) ==
            \/ is_section_header(s) /\ strip(s.text) # "TREASURE HOARD"
            \/ is_subsection_title(s)
            \/ is_sidebar_header(s)
        start == find_first(headers_named(spans, "TREASURE HOARD"))
        end == find_end([i \in 1..Len(spans) |-> IsEnd(spans[i])],
                        start[1] + 1)
    IN  IF start = None THEN <<>>
        ELSE treasure_hoard_flush(
                 treasure_hoard_loop(cells_init,
                                     table_spans(spans, start[1], end))).result


-----------------------------------------------------------------------------
(* extract_dcb_treasure.py: main                                           *)

\* page = doc[page_idx]; spans = collect_spans(page): doc[page_idx] raises
\* IndexError on a page the document does not have
page_spans(doc, page_idx) ==
    IF page_idx >= len(doc) THEN Raised
    ELSE Returned(collect_spans(doc.pages[page_idx]))

\* the call main makes for an output key: its value or the exception
main_call(doc, key) ==
    LET on_page(page_idx, parse(_)) ==
            IF page_spans(doc, page_idx).raised THEN Raised
            ELSE Returned(parse(page_spans(doc, page_idx).value))
        on_page_raising(page_idx, parse(_)) ==
            IF page_spans(doc, page_idx).raised THEN Raised
            ELSE parse(page_spans(doc, page_idx).value)
        jewellery(s) == extract_two_column_table(s, "JEWELLERY")
        misc(s) == extract_two_column_table(s, "MISCELLANEOUS ART OBJECTS")
        precious(s) == extract_side_by_side_d20_table(s, "PRECIOUS MATERIALS")
        embellishments(s) == extract_side_by_side_d20_table(s, "EMBELLISHMENTS")
        provenance(s) == extract_side_by_side_d20_table(s, "PROVENANCE")
        summary == {t \in {SUMMARY_TABLE_SECTIONS[i] : i \in 1..7} : t[3] = key}
        generation ==
            {t \in {GENERATION_TABLE_SECTIONS[i] : i \in 1..5} : t[3] = key}
    IN  CASE key = "coins" -> on_page(394, extract_coins_table)
          [] key = "riches" -> on_page(394, extract_riches_table)
          [] key = "magicItems" -> on_page(394, extract_magic_items_table)
          [] key = "magicItemType" ->
                 on_page_raising(394, extract_magic_item_type_table)
          [] key = "treasureHoard" -> on_page(393, extract_treasure_hoard_table)
          [] key = "coinAppearance" ->
                 on_page(394, extract_coin_appearance_table)
          [] key = "gemValue" -> on_page(395, extract_gem_value_table)
          [] key = "gemType" -> on_page(395, extract_gem_type_table)
          [] key = "jewellery" -> on_page_raising(396, jewellery)
          [] key = "miscArtObjects" -> on_page_raising(396, misc)
          [] key = "preciousMaterials" -> on_page(396, precious)
          [] key = "embellishments" -> on_page(396, embellishments)
          [] key = "provenance" -> on_page(396, provenance)
          [] summary # {} ->
                 LET t == CHOOSE t \in summary : TRUE
                 IN  Returned(extract_magic_item_subtable(doc, t[1], t[2]))
          [] generation # {} ->
                 LET t == CHOOSE t \in generation : TRUE
                 IN  Returned(extract_generation_subtables(doc, t[1], t[2]))

\* the default arguments of main, and the file it writes
DCB_PDF_PATH == "tmp/etl/DCB.pdf"

OUTPUT_DIR == "tmp/etl"

DCB_OUTPUT_PATH == OUTPUT_DIR \o "/" \o "dcb-treasure-tables.json"

\* a file operation of a run
FileOp(op, path) == [op |-> op, path |-> path]

\* os.makedirs(path, exist_ok=True)
makedirs(disk, path) ==
    [disk EXCEPT !.dirs = @ \cup {path},
                 !.log = Append(@, FileOp("makedirs", path))]

\* fitz.open(path) and doc.close()
open_document(disk, path) ==
    [disk EXCEPT !.log = Append(@, FileOp("fitz.open", path))]

close_document(disk, path) ==
    [disk EXCEPT !.log = Append(@, FileOp("close", path))]

\* with open(path, "w") as f: json.dump(value, f)
write_json(disk, path, value) ==
    [disk EXCEPT !.files = SetItem(@, path, value),
                 !.log = Append(@, FileOp("write", path))]

\* main writing the mapping gathered so far after every table
MainStep_writing(at, next, key) ==
    LET result == main_call(args.doc, key)
    IN  /\ pc = at
        /\ IF result.raised
           THEN pc' = "raised" /\ locals' = locals /\ fs' = fs
           ELSE /\ pc' = next
                /\ locals' = [locals EXCEPT
                                 !.output = SetItem(@, key, result.value)]
                /\ fs' = write_json(fs, DCB_OUTPUT_PATH,
                                    SetItem(locals.output, key, result.value))
        /\ UNCHANGED <<args, ret>>
        /\ Frame("run")

\* one assignment output[key] = ... of main: the exception of the call
\* leaves main before the write
MainStep(at, next, key) ==
    LET result == main_call(args.doc, key)
    IN  /\ pc = at
        /\ IF result.raised
           THEN pc' = "raised" /\ locals' = locals
           ELSE /\ pc' = next
                /\ locals' = [locals EXCEPT
                                 !.output = SetItem(@, key, result.value)]
        /\ UNCHANGED <<args, ret>>
        /\ Frame("call")

\* main creating the output directory before it looks for the PDF
OpenDocument_makedirs_first ==
    /\ pc = "main"
    /\ IF args.pdf_exists
       THEN /\ fs' = open_document(makedirs(fs, OUTPUT_DIR), DCB_PDF_PATH)
            /\ pc' = "coins"
       ELSE /\ fs' = makedirs(fs, OUTPUT_DIR)
            /\ pc' = "exit 1"
    /\ UNCHANGED <<args, ret, locals>>
    /\ Frame("run")

\* os.path.exists(pdf_path), sys.exit(1); os.makedirs, fitz.open
OpenDocument ==
    /\ pc = "main"
    /\ IF args.pdf_exists
       THEN /\ fs' = open_document(makedirs(fs, OUTPUT_DIR), DCB_PDF_PATH)
            /\ pc' = "coins"
       ELSE /\ fs' = fs
            /\ pc' = "exit 1"
    /\ UNCHANGED <<args, ret, locals>>
    /\ Frame("run")

ExtractCoins == MainStep("coins", "riches", "coins")

ExtractRiches == MainStep("riches", "magicItems", "riches")

ExtractMagicItems == MainStep("magicItems", "magicItemType", "magicItems")

ExtractMagicItemType ==
    MainStep("magicItemType", "treasureHoard", "magicItemType")

ExtractTreasureHoard ==
    MainStep("treasureHoard", "coinAppearance", "treasureHoard")

ExtractCoinAppearance == MainStep("coinAppearance", "gemValue", "coinAppearance")

ExtractGemValue == MainStep("gemValue", "gemType", "gemValue")

ExtractGemType == MainStep("gemType", "jewellery", "gemType")

ExtractJewellery == MainStep("jewellery", "miscArtObjects", "jewellery")

ExtractMiscArtObjects ==
    MainStep("miscArtObjects", "preciousMaterials", "miscArtObjects")

ExtractPreciousMaterials ==
    MainStep("preciousMaterials", "embellishments", "preciousMaterials")

ExtractEmbellishments ==
    MainStep("embellishments", "provenance", "embellishments")

ExtractProvenance == MainStep("provenance", "summary", "provenance")

\* one pass of `for page_idx, section_name, json_key in SUMMARY_TABLE_SECTIONS`
ExtractSummaryTable ==
    /\ pc = "summary"
    /\ locals' = [locals EXCEPT
                     !.output =
                         SetItem(@, SUMMARY_TABLE_SECTIONS[locals.i][3],
                                 main_call(args.doc,
                                     SUMMARY_TABLE_SECTIONS[locals.i][3]).value),
                     !.i = IF locals.i < Len(SUMMARY_TABLE_SECTIONS)
                           THEN locals.i + 1 ELSE 1]
    /\ pc' = IF locals.i < Len(SUMMARY_TABLE_SECTIONS)
             THEN "summary" ELSE "generation"
    /\ UNCHANGED <<args, ret>>
    /\ Frame("call")

\* one pass of `for start_page, end_page, json_key in GENERATION_TABLE_SECTIONS`
ExtractGenerationTables ==
    /\ pc = "generation"
    /\ locals' = [locals EXCEPT
                     !.output =
                         SetItem(@, GENERATION_TABLE_SECTIONS[locals.i][3],
                                 main_call(args.doc,
                                     GENERATION_TABLE_SECTIONS[locals.i][3]).value),
                     !.i = IF locals.i < Len(GENERATION_TABLE_SECTIONS)
                           THEN locals.i + 1 ELSE 1]
    /\ pc' = IF locals.i < Len(GENERATION_TABLE_SECTIONS)
             THEN "generation" ELSE "write"
    /\ UNCHANGED <<args, ret>>
    /\ Frame("call")

\* json.dump(output, f), doc.close(): ret is the mapping written to
\* dcb-treasure-tables.json
WriteOutput ==
    /\ pc = "write"
    /\ ret' = Some(locals.output)
    /\ fs' = close_document(write_json(fs, DCB_OUTPUT_PATH, locals.output),
                            DCB_PDF_PATH)
    /\ pc' = "done"
    /\ UNCHANGED <<args, locals>>
    /\ Frame("run")


-----------------------------------------------------------------------------
(* Specification SpecMain: main on Campaign Book documents                 *)

ColumnHeader(text) == Span(text, "TheAntiquaB-W7Bold", 100)

RowLabel(text) == Span(text, "TheAntiquaB-W7Bold", 85)

Cell(text) == Span(text, "TheAntiquaB-W5Plain", 85)

ItalicCell(text) == Span(text, "TheAntiquaB-W5PlainItalic", 85)

PageRef(text) == Span(text, "TheAntiquaB-W7BoldItalic", 85)

\* a span from x0 to x1 on the given row
PlacedAt(span, x0, x1, row) ==
    span @@ [bbox |-> <<x0, 1000 * row + 4, x1, 1000 * row + 126>>]

\* page 394 (index 393): the d100 table of hoards
TreasureHoardPage ==
    PlacedInOrder(
        <<SectionHeader("TREASURE HOARD"), ColumnHeader("d100"),
          RowLabel("01" \o EN_DASH \o "50"), Cell("C1 + R1"), Cell("125gp"),
          RowLabel("51" \o EN_DASH \o "00"), Cell("C1 + M1"), Cell("n/a")>>)

\* page 395 (index 394): coins, riches, magic items, item types, coin faces
HoardTablesPage ==
    PlacedInOrder(
        <<SectionHeader("COINS"), ColumnHeader("Type"),
          RowLabel("C1"), Cell("25%"), Cell("1d4 x 1,000cp"),
          Cell(EN_DASH), Cell(EN_DASH), Cell("25gp"),
          SectionHeader("RICHES"), ColumnHeader("Type"),
          RowLabel("R1"), Cell("50% 1d4 gems"), Cell(EN_DASH), Cell("100gp"),
          SectionHeader("MAGIC ITEMS"), ColumnHeader("Type"),
          RowLabel("M1"), Cell("10% 1 potion"), Cell("500gp"),
          SectionHeader("MAGIC ITEM TYPE"), ColumnHeader("d100"),
          RowLabel("01" \o EN_DASH \o "00"), Cell("Potion"), PageRef("p416"),
          SectionHeader("COIN APPEARANCE"), ColumnHeader("d10"),
          RowLabel("1"), Cell("Crown"), Cell("Tree")>>)

\* page 396 (index 395): gem values, and the gem grid with one span printed
\* across the Semi-Precious and Fancy columns
GemPage ==
    <<PlacedAt(SectionHeader("GEM VALUE"), 500, 1500, 1),
      PlacedAt(RowLabel("01" \o EN_DASH \o "00"), 500, 800, 2),
      PlacedAt(Cell("Ornamental"), 1000, 1500, 2),
      PlacedAt(Cell("10gp"), 1800, 2100, 2),
      PlacedAt(SectionHeader("GEM TYPE"), 500, 1500, 3),
      PlacedAt(ColumnHeader("d12"), 500, 800, 4),
      PlacedAt(ColumnHeader("Ornamental"), 1000, 1500, 4),
      PlacedAt(ColumnHeader("Semi-Precious"), 1800, 2400, 4),
      PlacedAt(ColumnHeader("Fancy"), 2600, 2900, 4),
      PlacedAt(ColumnHeader("Precious"), 3400, 3800, 4),
      PlacedAt(ColumnHeader("Gemstone"), 4200, 4700, 4),
      PlacedAt(RowLabel("1"), 500, 600, 5),
      PlacedAt(Cell("Agate"), 1000, 1300, 5),
      PlacedAt(Cell("Amber Black opal"), 1800, 3200, 5),
      PlacedAt(Cell("Diamond"), 3400, 3800, 5),
      PlacedAt(Cell("Ruby"), 4200, 4500, 5)>>

\* page 397 (index 396): the art object tables; label is the second row
\* label of the jewellery table
ArtObjectsPage(label) ==
    PlacedInOrder(
        <<SectionHeader("JEWELLERY"), ColumnHeader("d20"),
          RowLabel("1" \o EN_DASH \o "4"), Cell("Anklet"),
          RowLabel(label), Cell("Brooch"),
          SectionHeader("MISCELLANEOUS ART OBJECTS"), ColumnHeader("d20"),
          RowLabel("1"), Cell("Armour"),
          SectionHeader("PRECIOUS MATERIALS"),
          RowLabel("1"), Cell("Alabaster"),
          SectionHeader("EMBELLISHMENTS"),
          RowLabel("1"), Cell("Beads"),
          SectionHeader("PROVENANCE"),
          RowLabel("1"), Cell("Ancient")>>)

\* the page of a summary table: the header over the appearance table, then
\* again over the list of items
SummaryPage(section_name) ==
    PlacedInOrder(
        <<SectionHeader(section_name), ColumnHeader("d6"),
          RowLabel("1"), Cell("Bone"),
          SectionHeader(section_name), ColumnHeader("Type"),
          Cell("Charm"), Cell("1,000"), Cell("Wards the wearer"),
          Cell("Ward"), Cell("500"), ItalicCell("Glows")>>)

\* the first page of a generation range: two sub-tables
GenerationPage ==
    PlacedInOrder(
        <<SectionHeader("ARMOUR TYPE"), ColumnHeader("d6"),
          RowLabel("1" \o EN_DASH \o "3"), Cell("Leather"),
          RowLabel("4" \o EN_DASH \o "6"), Cell("Chain"),
          SectionHeader("ENCHANTMENT"),
          RowLabel("1"), ItalicCell("+1")>>)

\* the pages 0 .. n - 1 of the book with the jewellery label given
BookPages(n, label) ==
    [p \in 0..(n - 1) |->
        IF p = 393 THEN TreasureHoardPage
        ELSE IF p = 394 THEN HoardTablesPage
        ELSE IF p = 395 THEN GemPage
        ELSE IF p = 396 THEN ArtObjectsPage(label)
        ELSE IF \E i \in 1..7 : SUMMARY_TABLE_SECTIONS[i][1] = p
        THEN SummaryPage(
                 SUMMARY_TABLE_SECTIONS[
                     CHOOSE i \in 1..7 : SUMMARY_TABLE_SECTIONS[i][1] = p][2])
        ELSE IF \E i \in 1..5 : GENERATION_TABLE_SECTIONS[i][1] = p
        THEN GenerationPage
        ELSE BlankPage]

Book(n, label) == [len |-> n, pages |-> BookPages(n, label)]

\* the number of pages of the book as printed
BookLength == 423

BaseDoc == Book(BookLength, "5" \o EN_DASH \o "6")

\* the tables found by a named header: output key, page index, header text
Anchors ==
    <<<<"coins", 394, "COINS">>, <<"riches", 394, "RICHES">>,
      <<"magicItems", 394, "MAGIC ITEMS">>,
      <<"magicItemType", 394, "MAGIC ITEM TYPE">>,
      <<"treasureHoard", 393, "TREASURE HOARD">>,
      <<"coinAppearance", 394, "COIN APPEARANCE">>,
      <<"gemValue", 395, "GEM VALUE">>, <<"gemType", 395, "GEM TYPE">>,
      <<"jewellery", 396, "JEWELLERY">>,
      <<"miscArtObjects", 396, "MISCELLANEOUS ART OBJECTS">>,
      <<"preciousMaterials", 396, "PRECIOUS MATERIALS">>,
      <<"embellishments", 396, "EMBELLISHMENTS">>,
      <<"provenance", 396, "PROVENANCE">>>>
    \o [i \in 1..7 |-> <<SUMMARY_TABLE_SECTIONS[i][3],
                         SUMMARY_TABLE_SECTIONS[i][1],
                         SUMMARY_TABLE_SECTIONS[i][2]>>]

\* doc with no header of the anchor's text on the anchor's page
WithoutAnchor(doc, anchor) ==
    LET other(s) == ~is_header_named(s, anchor[3])
    IN  [len |-> doc.len,
         pages |-> [p \in DOMAIN doc.pages |->
                       IF p = anchor[2] THEN SelectSeq(doc.pages[p], other)
                       ELSE doc.pages[p]]]

\* documents shorter than the book
ShortLengths == {0, 394, 396, 400}

\* second row labels of the jewellery table with nothing after the dash
OpenRangeLabels == {"5-", "5" \o EN_DASH}

MainDocuments ==
    {BaseDoc}
    \cup {WithoutAnchor(BaseDoc, Anchors[a]) : a \in 1..Len(Anchors)}
    \cup {Book(n, "5" \o EN_DASH \o "6") : n \in ShortLengths}
    \cup {Book(BookLength, label) : label \in OpenRangeLabels}

\* what an earlier run left in the output file
StaleOutput == [coins |-> <<>>]

\* the disk before the run: no output directory, an empty one, one with the
\* output file of an earlier run
MainDisks ==
    {[dirs |-> {}, files |-> EmptyDict, log |-> <<>>],
     [dirs |-> {OUTPUT_DIR}, files |-> EmptyDict, log |-> <<>>],
     [dirs |-> {OUTPUT_DIR}, files |-> (DCB_OUTPUT_PATH :> StaleOutput),
      log |-> <<>>]}

InitMain ==
    /\ Idle("run")
    /\ fs \in MainDisks
    /\ pc = "main"
    /\ args \in {[pdf_exists |-> FALSE]}
                \cup {[pdf_exists |-> TRUE, doc |-> d] : d \in MainDocuments}
    /\ ret = None
    /\ locals = [output |-> EmptyDict, i |-> 1]

NextMain ==
    \/ OpenDocument
    \/ ExtractCoins
    \/ ExtractRiches
    \/ ExtractMagicItems
    \/ ExtractMagicItemType
    \/ ExtractTreasureHoard
    \/ ExtractCoinAppearance
    \/ ExtractGemValue
    \/ ExtractGemType
    \/ ExtractJewellery
    \/ ExtractMiscArtObjects
    \/ ExtractPreciousMaterials
    \/ ExtractEmbellishments
    \/ ExtractProvenance
    \/ ExtractSummaryTable
    \/ ExtractGenerationTables
    \/ WriteOutput

SpecMain == InitMain /\ [][NextMain]_vars

\* the run of main on an opened document is over
MainOver == args.pdf_exists /\ pc \in {"done", "raised"}

\* C6: when the header of one table is not on its page, the mapping written
\* still has the table's key with an empty list or mapping, the run does not
\* fail, and every other key has the value it has with the header in place.
C6_MissingAnchor ==
    \A a \in 1..Len(Anchors) :
        (MainOver /\ args.doc = WithoutAnchor(BaseDoc, Anchors[a])) =>
            /\ pc = "done"
            /\ Anchors[a][1] \in DOMAIN ret[1]
            /\ ret[1][Anchors[a][1]] = <<>>
            /\ \A key \in DOMAIN ret[1] \ {Anchors[a][1]} :
                   ret[1][key] = main_call(BaseDoc, key).value

\* C7: on every opened document no table extraction raises, and main
\* reaches the write of dcb-treasure-tables.json.
C7_NeverRaises == args.pdf_exists => pc # "raised"

-----------------------------------------------------------------------------
(* Specification SpecGem: the loop of extract_gem_type_table, span by span, *)
(* on a grid of five columns and one row of one or two gem names            *)

\* the section header, the six column headers and the row label
GemGridHead ==
    <<PlacedAt(SectionHeader("GEM TYPE"), 500, 1500, 3),
      PlacedAt(ColumnHeader("d12"), 500, 800, 4),
      PlacedAt(ColumnHeader("Ornamental"), 1000, 1500, 4),
      PlacedAt(ColumnHeader("Semi-Precious"), 1800, 2400, 4),
      PlacedAt(ColumnHeader("Fancy"), 2600, 2900, 4),
      PlacedAt(ColumnHeader("Precious"), 3400, 3800, 4),
      PlacedAt(ColumnHeader("Gemstone"), 4200, 4700, 4),
      PlacedAt(RowLabel("1"), 500, 600, 5)>>

GemCellTexts ==
    {"Agate", "Jet Onyx", "Amber Black opal", "Chrysoberyl Opal",
     "Amber + trapped insect Black opal"}

\* left and right edges: within the Semi-Precious column, 4pt and 6pt past
\* the left x of Fancy, far into Fancy, from the middle of the column, from
\* 4pt left of the header, across Fancy into Precious, from the end of the
\* column across Fancy and Precious, and in the last column
GemCellEdges ==
    {<<1800, 2400>>, <<1800, 2640>>, <<1800, 2660>>, <<1800, 3200>>,
     <<1800, 2900>>, <<2400, 3200>>, <<1760, 3200>>, <<1800, 4000>>,
     <<2500, 4100>>,
     <<4200, 5200>>}

\* the gem names that may be printed on a line of the page
GemCells(row) ==
    {PlacedAt(Cell(t), e[1], e[2], row) : t \in GemCellTexts, e \in GemCellEdges}

\* the pages: the head alone, with a gem name on the line of the row label,
\* and with a second one on the line below
GemGrids ==
    {GemGridHead}
    \cup {GemGridHead \o <<a>> : a \in GemCells(5)}
    \cup {GemGridHead \o <<a, b>> : a \in GemCells(5), b \in GemCells(6)}

InitGem ==
    /\ Idle("call")
    /\ pc = "gem bounds"
    /\ args \in {[page |-> g] : g \in GemGrids}
    /\ ret = None
    /\ locals = <<>>

\* spans = collect_spans(page); start / end, table_spans and col_x
GemTypeBounds ==
    /\ pc = "gem bounds"
    /\ LET spans == collect_spans(args.page)
           IsEnd(s) == is_section_header(s) \/ is_subsection_title(s)
           bounds == find_bounds(headers_named(spans, "GEM TYPE"),
                                 no_span(spans),
                                 [i \in 1..Len(spans) |-> IsEnd(spans[i])])
           table == table_spans(spans, bounds.start[1], bounds.end)
       IN  IF bounds.start = None
           THEN pc' = "done" /\ ret' = Some(EmptyDict) /\ locals' = locals
           ELSE /\ pc' = "gem loop"
                /\ locals' = [st |-> gem_type_init, table_spans |-> table,
                              col_x |-> gem_col_x(table), i |-> 1]
                /\ ret' = ret
    /\ UNCHANGED args
    /\ Frame("call")

\* one iteration of the loop over table_spans
GemTypeSpan ==
    /\ pc = "gem loop"
    /\ locals.i <= Len(locals.table_spans)
    /\ ~locals.st.stop
    /\ locals' = [locals EXCEPT
                     !.st = gem_type_step(@, locals.col_x,
                                          locals.table_spans[locals.i]),
                     !.i = @ + 1]
    /\ UNCHANGED <<pc, args, ret>>
    /\ Frame("call")

\* the flush after the loop and the return
GemTypeReturn ==
    /\ pc = "gem loop"
    /\ locals.i > Len(locals.table_spans) \/ locals.st.stop
    /\ ret' = Some(gem_type_flush(locals.st).result)
    /\ pc' = "done"
    /\ UNCHANGED <<args, locals>>
    /\ Frame("call")

NextGem == GemTypeBounds \/ GemTypeSpan \/ GemTypeReturn

SpecGem == InitGem /\ [][NextGem]_vars

\* the span of the iteration about to run
GemSpan == locals.table_spans[locals.i]

\* the span is a gem name of the row being read
GemCellRead ==
    /\ pc = "gem loop"
    /\ locals.i <= Len(locals.table_spans)
    /\ strip(GemSpan.text) # ""
    /\ is_cell_value(GemSpan)
    /\ locals.st.current_roll # None

GemColumn == get_column(locals.col_x, GemSpan.bbox[1])

\* the left x of the column after the span's own, if there is one
GemNextColumnX ==
    IF GemColumn + 1 < Len(locals.col_x)
    THEN Some(locals.col_x[GemColumn + 2]) ELSE None

\* the right edge of the span lies more than 5pt past the next column's left x
GemSpanCrosses ==
    /\ GemCellRead
    /\ GemNextColumnX # None
    /\ GemSpan.bbox[3] > GemNextColumnX[1] + 50

\* the text the step adds to the cell of column c
GemAdded(c) ==
    LET before == locals.st.row_cells
        after == locals'.st.row_cells
    IN  IF c \notin DOMAIN after THEN ""
        ELSE IF c \notin DOMAIN before THEN after[c]
        ELSE IF after[c] = before[c] THEN ""
        ELSE SubSeq(after[c], Len(before[c]) + 2, Len(after[c]))

\* C11: a gem name whose right edge lies more than 5pt past the left x of the
\* next column is split at a space of its text; with content for both columns
\* neither half is empty; and the column that covers the greater share of the
\* span's width receives the greater share of the text.
C11_GemColumnSplit ==
    [][GemSpanCrosses =>
        LET text == strip(GemSpan.text)
            left_part == GemAdded(GemColumn)
            right_part == GemAdded(GemColumn + 1)
            in_column == GemNextColumnX[1] - GemSpan.bbox[1]
            in_next == GemSpan.bbox[3] - GemNextColumnX[1]
        IN  /\ split_whitespace(left_part) \o split_whitespace(right_part)
                   = split_whitespace(text)
            /\ Len(split_whitespace(text)) >= 2
                   => left_part # "" /\ right_part # ""
            /\ in_column > in_next => Len(left_part) >= Len(right_part)
            /\ in_next > in_column => Len(right_part) >= Len(left_part)]_vars

-----------------------------------------------------------------------------
(* extract_bestiary: the pages that start a creature                        *)

\* the creature-name spans among the collected spans of a page, by position
NameSpansAt(page) ==
    {k \in 1..Len(collect_spans(page)) :
        is_creature_name_font(collect_spans(page)[k])}

\* the first creature-name span of the page has text, and it is not Bestiary
StartsCreature(page) ==
    /\ NameSpansAt(page) # {}
    /\ LET first == CHOOSE k \in NameSpansAt(page) :
                        \A j \in NameSpansAt(page) : k <= j
       IN  strip(collect_spans(page)[first].text) \notin {"", "Bestiary"}

\* the pages of the fixed range that start a creature
StartPages ==
    {p \in BESTIARY_FIRST..(BESTIARY_END - 1) : StartsCreature(args.doc[p])}

\* the k-th page of a set of pages in increasing order
NthPage(pages, k) ==
    CHOOSE p \in pages : Cardinality({q \in pages : q < p}) = k - 1

\* C12: the creature starts are exactly the pages of the fixed range whose
\* first creature-name span has text other than "Bestiary", in page order;
\* the k-th parse is given the pages from the k-th start up to the next
\* start, the last one up to page 103, so the ranges follow one another
\* without gap or overlap from the first start to the end of the range.
C12_BoundaryDetection ==
    pc \in {"phase 2", "return"} =>
        LET starts == StartPages
        IN  /\ Len(locals.creature_starts) = Cardinality(starts)
            /\ \A k \in 1..Len(locals.creature_starts) :
                   locals.creature_starts[k][1] = NthPage(starts, k)
            /\ locals.i > 1 =>
                   /\ locals.start_page = Some(NthPage(starts, locals.i - 1))
                   /\ locals.end_page =
                          IF locals.i - 1 < Cardinality(starts)
                          THEN Some(NthPage(starts, locals.i))
                          ELSE Some(BESTIARY_END)
            /\ pc = "return" /\ starts # {} =>
                   locals.end_page = Some(BESTIARY_END)

\* a title page that starts nothing although a name follows the title, then
\* two creatures: the first is read up to the second, the second to page 103
C12_Witness ==
    /\ pc = "return"
    /\ args.doc[BESTIARY_FIRST] = TitleThenNamePage
    /\ args.doc[BESTIARY_FIRST + 1] = LateNamePage
    /\ args.doc[BESTIARY_FIRST + 2] = StatPage
    /\ locals.creature_starts =
           <<<<BESTIARY_FIRST + 1, "Sprite">>, <<BESTIARY_FIRST + 2, "Goblin">>>>
    /\ locals.start_page = Some(BESTIARY_FIRST + 2)
    /\ locals.end_page = Some(BESTIARY_END)
    /\ Len(ret) = 2

-----------------------------------------------------------------------------
(* Specification SpecStatBlock: _parse_bestiary_spans, span by span, on a   *)
(* name, a meta line and a stat block of up to MaxStatLines labelled lines  *)

MaxStatLines == 2

\* labels as printed and in other letter case
StatLabelTexts ==
    {"Level", "Behaviour", "Speech", "Possessions", "Hoard", "hoard",
     "SPEECH"}

StatValueTexts == {"Shy", "C4 + R4"}

\* a label alone, with one value, or with a value printed on two lines
StatLines ==
    {<<BigStatLabel(l)>> : l \in StatLabelTexts}
    \cup {<<BigStatLabel(l), StatValue(v)>> :
             l \in StatLabelTexts, v \in StatValueTexts}
    \cup {<<BigStatLabel(l), StatValue("Shy"), StatValue("of men")>> :
             l \in StatLabelTexts}

RECURSIVE StatBlocks(_)
StatBlocks(n) ==
    IF n = 0 THEN {<<>>}
    ELSE LET shorter == StatBlocks(n - 1)
         IN  shorter \cup {b \o line : b \in shorter, line \in StatLines}

StatStreams ==
    {<<CreatureName("Goblin"), MetaLine("Small fairy")>> \o b :
        b \in StatBlocks(MaxStatLines)}

InitStatBlock ==
    /\ Idle("call")
    /\ pc = "parse loop"
    /\ args \in {[creature |-> BestiaryCreature("Goblin"), spans |-> s] :
                    s \in StatStreams}
    /\ locals = [st |-> bestiary_locals(BestiaryCreature("Goblin")), i |-> 1]
    /\ ret = None

\* one iteration of the loop over spans
ParseBestiarySpan ==
    /\ pc = "parse loop"
    /\ locals.i <= Len(args.spans)
    /\ locals' = [st |-> bestiary_step(locals.st, args.spans[locals.i]),
                  i |-> locals.i + 1]
    /\ UNCHANGED <<pc, args, ret>>
    /\ Frame("call")

\* the flushes after the loop; the creature is left to the caller
ParseBestiaryEnd ==
    /\ pc = "parse loop"
    /\ locals.i > Len(args.spans)
    /\ ret' = Some(bestiary_finish(locals.st))
    /\ pc' = "done"
    /\ UNCHANGED <<args, locals>>
    /\ Frame("call")

NextStatBlock == ParseBestiarySpan \/ ParseBestiaryEnd

SpecStatBlock == InitStatBlock /\ [][NextStatBlock]_vars

\* the positions of the stat labels of the stream that have values after them
LabelledAt(spans) ==
    {k \in 1..(Len(spans) - 1) :
        /\ spans[k].font = BigStatLabel("").font
        /\ spans[k].size = BigStatLabel("").size
        /\ spans[k + 1].font = StatValue("").font
        /\ spans[k + 1].size = StatValue("").size}

\* the values printed after the label at position k, joined by spaces
RECURSIVE ValuesAfter(_, _)
ValuesAfter(spans, k) ==
    IF k + 1 > Len(spans) \/ spans[k + 1].font # StatValue("").font
       \/ spans[k + 1].size # StatValue("").size
    THEN ""
    ELSE LET rest == ValuesAfter(spans, k + 1)
         IN  IF rest = "" THEN spans[k + 1].text
             ELSE spans[k + 1].text \o " " \o rest

\* the last labelled position whose label has the given text, if any
LastLabelled(spans, texts) ==
    LET at == {k \in LabelledAt(spans) : spans[k].text \in texts}
    IN  IF at = {} THEN None
        ELSE Some(CHOOSE k \in at : \A j \in at : j <= k)

EnrichmentKeys == {"behaviour", "speech", "possessions", "hoard"}

\* C13: after _parse_bestiary_spans the stats map has none of the keys
\* behaviour, speech, possessions, hoard; a label Behaviour, Speech,
\* Possessions or Hoard with values is written to the creature field of that
\* name and to nothing else; every other label with values is stored in
\* stats under its lower-cased text.
C13_EnrichmentFields ==
    pc = "done" =>
        LET creature == ret[1]
            spans == args.spans
        IN  /\ DOMAIN creature.stats \cap EnrichmentKeys = {}
            /\ \A label \in ENRICHMENT_FIELDS :
                   LET last == LastLabelled(spans, {label})
                   IN  /\ creature[lower(label)] =
                              IF last = None THEN ""
                              ELSE ValuesAfter(spans, last[1])
                       /\ lower(label) \notin DOMAIN creature.stats
            /\ \A k \in LabelledAt(spans) :
                   spans[k].text \notin ENRICHMENT_FIELDS =>
                       /\ lower(spans[k].text) \in DOMAIN creature.stats
                       /\ creature.stats[lower(spans[k].text)] =
                              ValuesAfter(spans,
                                  LastLabelled(spans,
                                      {t \in StatLabelTexts :
                                          lower(t) = lower(spans[k].text)}
                                          \ ENRICHMENT_FIELDS)[1])
            /\ \A f \in {"name", "description", "abilities", "sections",
                         "names"} :
                   creature[f] = args.creature[f]

-----------------------------------------------------------------------------
(* extract_bestiary: the shape of the records                               *)

\* the starts among the first n whose creature has stats, in order
RECURSIVE KeptStarts(_)
KeptStarts(n) ==
    IF n = 0 THEN <<>>
    ELSE KeptStarts(n - 1)
             \o (IF DOMAIN ParsedCreature(n).stats # {} THEN <<n>> ELSE <<>>)

BestiaryTextKeys ==
    {"description", "meta", "behaviour", "speech", "possessions", "hoard",
     "names"}

\* the key is in the record exactly when the creature's field is not empty,
\* and then with the field's value
PresentWhenNonEmpty(record, creature, key, empty) ==
    /\ key \in DOMAIN record <=> creature[key] # empty
    /\ key \in DOMAIN record => record[key] = creature[key]

\* the records built so far
BestiaryRecords == IF pc = "return" THEN ret ELSE locals.creatures

\* C14 as stated: every record has name, stats, abilities and sections, and
\* each of description, meta, behaviour, speech, possessions, hoard, names
\* is present exactly when its value is not empty.
C14_AsStated ==
    pc \in {"phase 2", "return"} =>
        LET kept == KeptStarts(locals.i - 1)
        IN  \A n \in 1..Len(BestiaryRecords) :
                /\ {"name", "stats", "abilities", "sections"}
                       \subseteq DOMAIN BestiaryRecords[n]
                /\ \A key \in BestiaryTextKeys :
                       PresentWhenNonEmpty(BestiaryRecords[n],
                                           ParsedCreature(kept[n]), key, "")

\* C14: every record has name and stats, the stats not empty; each of
\* description, meta, behaviour, speech, possessions, hoard, abilities,
\* sections, names is present exactly when its value is not empty, and no
\* other key is emitted.
C14_RecordShape ==
    pc \in {"phase 2", "return"} =>
        LET kept == KeptStarts(locals.i - 1)
        IN  /\ Len(BestiaryRecords) = Len(kept)
            /\ \A n \in 1..Len(BestiaryRecords) :
                   LET record == BestiaryRecords[n]
                       creature == ParsedCreature(kept[n])
                   IN  /\ {"name", "stats"} \subseteq DOMAIN record
                       /\ record.name = creature.name
                       /\ record.stats = creature.stats
                       /\ DOMAIN record.stats # {}
                       /\ \A key \in BestiaryTextKeys :
                              PresentWhenNonEmpty(record, creature, key, "")
                       /\ PresentWhenNonEmpty(record, creature, "abilities",
                                              <<>>)
                       /\ PresentWhenNonEmpty(record, creature, "sections",
                                              EmptyDict)
                       /\ DOMAIN record \subseteq
                              {"name", "stats", "abilities", "sections"}
                                  \cup BestiaryTextKeys

\* a creature with stats and a speech line and neither abilities nor
\* sections, and one with an ability and an encounter table
C14_Witness ==
    /\ pc = "return"
    /\ Len(ret) = 2
    /\ DOMAIN ret[1] = {"name", "stats", "speech"}
    /\ ret[1].speech = "Sylvan"
    /\ DOMAIN ret[2] =
           {"name", "description", "meta", "stats", "abilities", "sections"}
    /\ DOMAIN ret[2].sections = {"ENCOUNTERS"}

-----------------------------------------------------------------------------
(* Specification SpecTitle: _title_case_name on every short name           *)

MaxNameLen == 4

TitleAlphabet == {"A", "b", "3", " ", "-", "'", EM_DASH, RIGHT_QUOTE}

TitleExamples ==
    {"JACK-O" \o RIGHT_QUOTE \o "-LANTERN", "WYRM" \o EM_DASH \o "BLACK BILE",
     "ANT, GIANT", "LOST SOUL", "Will-o'-the-wisp"}

TitleInputs == Strings(TitleAlphabet, MaxNameLen) \cup TitleExamples

InitTitle ==
    /\ Idle("call")
    /\ pc = "call"
    /\ args \in {[name |-> n] : n \in TitleInputs}
    /\ ret = None
    /\ locals = <<>>

TitleCaseName ==
    /\ pc = "call"
    /\ ret' = _title_case_name(args.name)
    /\ pc' = "return"
    /\ UNCHANGED <<args, locals>>
    /\ Frame("call")

NextTitle == TitleCaseName

SpecTitle == InitTitle /\ [][NextTitle]_vars

\* the character of the result at a position whose character in the name is
\* c and whose left neighbour is before ("" at the start of the name)
TitleCharAfter(before, c) ==
    IF c = EM_DASH THEN "-"
    ELSE IF c = RIGHT_QUOTE THEN "'"
    ELSE IF ~IsLetter(c) THEN c
    ELSE IF before # "" /\ IsLetter(before) THEN LowerChar(c)
    ELSE UpperChar(c)

\* the positions of s that start a whitespace-separated word
WordStarts(s) ==
    {k \in 1..Len(s) :
        /\ ~IsSpace(Char(s, k))
        /\ k = 1 \/ IsSpace(Char(s, k - 1))}

\* C15 as stated: em-dash becomes hyphen and the right quote an apostrophe,
\* the first letter of each whitespace-separated word is in upper case and
\* every other letter of the word in lower case.
C15_AsStated ==
    pc = "return" =>
        /\ Len(ret) = Len(args.name)
        /\ \A k \in 1..Len(ret) :
               LET c == Char(args.name, k)
                   r == Char(ret, k)
               IN  IF c = EM_DASH THEN r = "-"
                   ELSE IF c = RIGHT_QUOTE THEN r = "'"
                   ELSE IF ~IsLetter(c) THEN r = c
                   ELSE IF k \in WordStarts(args.name) THEN r = UpperChar(c)
                   ELSE r = LowerChar(c)

\* C15: for every name of ASCII letters, digits, spaces, commas, hyphens,
\* apostrophes, em-dashes and right quotes, the result has the name's length;
\* em-dash becomes hyphen and the right quote an apostrophe; a letter that
\* starts the name or follows a character that is not a letter is in upper
\* case, a letter that follows a letter is in lower case; every other
\* character stays as it is, in its place.
C15_TitleCase ==
    pc = "return" =>
        /\ Len(ret) = Len(args.name)
        /\ \A k \in 1..Len(ret) :
               Char(ret, k) =
                   TitleCharAfter(IF k = 1 THEN "" ELSE Char(args.name, k - 1),
                                  Char(args.name, k))

C15_Witness ==
    /\ pc = "return"
    /\ args.name = "JACK-O" \o RIGHT_QUOTE \o "-LANTERN"
    /\ ret = "Jack-O'-Lantern"

-----------------------------------------------------------------------------
(* main of the Campaign Book tool: the file operations of a run             *)

\* the operations of the run so far that write a file
WritesOf(disk) == SelectSeq(disk.log, LAMBDA o : o.op = "write")

\* the keys of the mapping: thirteen tables, seven summary tables, five
\* categories of generation tables
OutputKeys ==
    {"coins", "riches", "magicItems", "magicItemType", "treasureHoard",
     "coinAppearance", "gemValue", "gemType", "jewellery", "miscArtObjects",
     "preciousMaterials", "embellishments", "provenance"}
    \cup {SUMMARY_TABLE_SECTIONS[i][3] : i \in DOMAIN SUMMARY_TABLE_SECTIONS}
    \cup {GENERATION_TABLE_SECTIONS[i][3] :
              i \in DOMAIN GENERATION_TABLE_SECTIONS}

\* the files of the disk are those a disk had before any run
FilesUntouched(disk) == \E before \in MainDisks : disk.files = before.files

\* C16: in a run of the Campaign Book tool dcb-treasure-tables.json is the
\* only file written and is written at most once; when it is written, every
\* table extraction has been made and the file holds the whole mapping; a
\* run that reaches the end has written it exactly once; before the write,
\* and in a run that ends at the existence test or in an extraction, no file
\* has been written and the files on disk are those from before the run.
C16_SingleSerialization ==
    /\ Len(WritesOf(fs)) <= 1
    /\ \A k \in 1..Len(WritesOf(fs)) :
           /\ WritesOf(fs)[k].path = DCB_OUTPUT_PATH
           /\ pc = "done"
           /\ DOMAIN locals.output = OutputKeys
           /\ fs.files[DCB_OUTPUT_PATH] = locals.output
    /\ pc = "done" => Len(WritesOf(fs)) = 1
    /\ pc # "done" => WritesOf(fs) = <<>> /\ FilesUntouched(fs)

\* a complete run over the output file of an earlier run
C16_Witness ==
    /\ pc = "done"
    /\ fs.log = <<FileOp("makedirs", OUTPUT_DIR),
                  FileOp("fitz.open", DCB_PDF_PATH),
                  FileOp("write", DCB_OUTPUT_PATH),
                  FileOp("close", DCB_PDF_PATH)>>
    /\ DOMAIN fs.files[DCB_OUTPUT_PATH] = OutputKeys
    /\ fs.files[DCB_OUTPUT_PATH] # StaleOutput
    /\ Cardinality(OutputKeys) = 25

-----------------------------------------------------------------------------
(* extract_dmb.py: the extractors of main on a whole document; a document   *)
(* is [len, pages], pages a function of the page indexes 0 .. len - 1      *)

\* CompactCreature.to_dict
CompactCreature_to_dict(self) ==
    ("name" :> self.name)
    @@ (IF self.meta # "" THEN "meta" :> self.meta ELSE EmptyDict)
    @@ (IF DOMAIN self.stats # {} THEN "stats" :> self.stats ELSE EmptyDict)
    @@ (IF self.abilities # <<>> THEN "abilities" :> self.abilities
        ELSE EmptyDict)
    @@ (IF self.description # "" THEN "description" :> self.description
        ELSE EmptyDict)
    @@ (IF self.variants # <<>> THEN "variants" :> self.variants
        ELSE EmptyDict)

\* the name with the drop capital put before a name text of another letter
_assemble_creature_name_prepend(parts) ==
    IF Len(parts) = 1 THEN _title_case_name(strip(parts[1]))
    ELSE LET drop_cap == strip(parts[1])
             rest == strip(join(Tail(parts)))
             full_name ==
                 IF rest # "" /\ upper(Char(rest, 1)) # upper(drop_cap)
                 THEN drop_cap \o rest
                 ELSE IF Len(rest) > 0
                 THEN drop_cap \o SubSeq(rest, 2, Len(rest))
                 ELSE drop_cap
         IN  _title_case_name(full_name)

_assemble_creature_name(parts) ==
    IF Len(parts) = 1 THEN _title_case_name(strip(parts[1]))
    ELSE LET drop_cap == strip(parts[1])
             rest == strip(join(Tail(parts)))
             full_name ==
                 IF rest # "" /\ upper(Char(rest, 1)) # upper(drop_cap)
                 THEN rest
                 ELSE IF Len(rest) > 0
                 THEN drop_cap \o SubSeq(rest, 2, Len(rest))
                 ELSE drop_cap
         IN  _title_case_name(full_name)

\* the locals of extract_appendix_creatures before its loop
appendix_locals ==
    [creatures |-> <<>>, pending_drop_cap |-> None,
     current_name_parts |-> <<>>, current_spans |-> <<>>]

\* extract_appendix_creatures.save_creature
appendix_save_creature(st, section_name) ==
    LET name == _assemble_creature_name(st.current_name_parts)
        creature ==
            _parse_compact_creature(name, st.current_spans, section_name)
        saved ==
            IF st.current_name_parts # <<>> /\ creature # None
            THEN [st EXCEPT !.creatures =
                                Append(@, CompactCreature_to_dict(creature[1]))]
            ELSE st
    IN  [saved EXCEPT !.current_name_parts = <<>>, !.current_spans = <<>>]

\* one iteration of the loop of extract_appendix_creatures
appendix_step(st, span, section_name) ==
    LET text == strip(span.text)
    IN  IF text = "" THEN st
        ELSE IF is_page_header_font(span) THEN st
        ELSE IF is_page_number_font(span) /\ isdigit(text) THEN st
        ELSE IF is_section_title_font(span) THEN st
        ELSE IF is_description_font(span) THEN st
        ELSE IF is_drop_cap_font(span)
        THEN [st EXCEPT !.pending_drop_cap = Some(text)]
        ELSE IF is_appendix_creature_name_font(span)
        THEN LET saved == appendix_save_creature(st, section_name)
             IN  IF saved.pending_drop_cap # None
                 THEN [saved EXCEPT
                          !.current_name_parts =
                              <<saved.pending_drop_cap[1], text>>,
                          !.pending_drop_cap = None]
                 ELSE [saved EXCEPT !.current_name_parts = <<text>>]
        ELSE LET cleared == [st EXCEPT !.pending_drop_cap = None]
             IN  IF cleared.current_name_parts # <<>>
                 THEN [cleared EXCEPT !.current_spans = Append(@, span)]
                 ELSE cleared

RECURSIVE appendix_loop(_, _, _)
appendix_loop(st, spans, section_name) ==
    IF spans = <<>> THEN st
    ELSE CHOOSE last \in
             {appendix_loop(next, Tail(spans), section_name)
                 : next \in {appendix_step(st, Head(spans), section_name)}}
             : TRUE

extract_appendix_creatures(doc, start_page, end_page, section_name) ==
    appendix_save_creature(
        appendix_loop(appendix_locals,
                      collect_page_range(doc.pages, start_page, end_page),
                      section_name),
        section_name).creatures

\* the titles find_appendix_ranges looks for
APPENDIX_TITLES ==
    {"Adventurers", "Everyday Mortals", "Animals", "Adventuring Parties",
     "Monster Rumours", "Creating Monsters", "Credits"}

APPENDIX_FIRST == 103

APPENDIX_LAST == 130

\* the first span of the list in the section-title font, if any
RECURSIVE first_section_title_span(_)
first_section_title_span(spans) ==
    IF spans = <<>> THEN None
    ELSE IF is_section_title_font(Head(spans)) THEN Some(Head(spans))
    ELSE first_section_title_span(Tail(spans))

\* the first loop of find_appendix_ranges from page_num on: sections and
\* section_order
RECURSIVE appendix_sections_from(_, _, _)
appendix_sections_from(doc, page_num, found) ==
    IF page_num >= min(APPENDIX_LAST, doc.len) THEN found
    ELSE LET first == first_section_title_span(
                          collect_spans(doc.pages[page_num]))
             name == strip(first[1].text)
         IN  IF first # None /\ name \in APPENDIX_TITLES
             THEN appendix_sections_from(doc, page_num + 1,
                      [sections |-> SetItem(found.sections, name, page_num),
                       section_order |-> Append(found.section_order, name)])
             ELSE appendix_sections_from(doc, page_num + 1, found)

\* the second loop of find_appendix_ranges from the i-th name on (i from 1)
RECURSIVE appendix_ranges_from(_, _, _, _)
appendix_ranges_from(doc, found, i, ranges) ==
    IF i > Len(found.section_order) THEN ranges
    ELSE LET name == found.section_order[i]
             start == found.sections[name]
             end == IF i < Len(found.section_order)
                    THEN found.sections[found.section_order[i + 1]]
                    ELSE doc.len
         IN  appendix_ranges_from(doc, found, i + 1,
                                  SetItem(ranges, name, <<start, end>>))

find_appendix_ranges(doc) ==
    appendix_ranges_from(
        doc,
        appendix_sections_from(doc, APPENDIX_FIRST,
                               [sections |-> EmptyDict, section_order |-> <<>>]),
        1, EmptyDict)

\* phase 2 of extract_bestiary from the i-th start on
RECURSIVE bestiary_creatures_from(_, _, _, _)
bestiary_creatures_from(doc, creature_starts, i, creatures) ==
    IF i > Len(creature_starts) THEN creatures
    ELSE CHOOSE last \in
             {bestiary_creatures_from(doc, creature_starts, i + 1, kept)
                 : kept \in
                     {bestiary_keep(creatures,
                          extract_bestiary_creature(
                              doc.pages, creature_starts[i][2],
                              creature_starts[i][1],
                              bestiary_end_page(creature_starts, i)))}}
             : TRUE

\* extract_bestiary: doc[page_num] raises on a document that ends before
\* the bestiary does
extract_bestiary(doc) ==
    IF doc.len < BESTIARY_END THEN Raised
    ELSE Returned(bestiary_creatures_from(
                      doc, creature_starts_from(doc.pages, BESTIARY_FIRST),
                      1, <<>>))

RECURSIVE mortals_pass2(_, _)
mortals_pass2(st, i) ==
    IF i > Len(st.all_spans) THEN save_mortal(st)
    ELSE CHOOSE last \in
             {mortals_pass2(next, i + 1)
                 : next \in {mortals_pass2_step(st, st.all_spans[i])}}
             : TRUE

RECURSIVE mortals_merge(_, _)
mortals_merge(st, i) ==
    IF i > Len(st.mortals) THEN st
    ELSE CHOOSE last \in
             {mortals_merge(next, i + 1)
                 : next \in {merge_mortal(st, st.mortals[i])}}
             : TRUE

\* extract_mortals: the records, each with its own stats mapping
extract_mortals(doc, start_page, end_page) ==
    CHOOSE records \in
        {[k \in 1..Len(st.result) |->
             [key \in DOMAIN st.result[k] |->
                 IF key = "stats" THEN st.heap[st.result[k].stats]
                 ELSE st.result[k][key]]]
            : st \in
                {mortals_merge(pass2, 1)
                    : pass2 \in
                        {mortals_pass2(pass1, 1)
                            : pass1 \in
                                {mortals_pass1(
                                     mortals_locals(spans), 1)
                                    : spans \in
                                        {collect_page_range(
                                             doc.pages, start_page,
                                             end_page)}}}}}
        : TRUE

-----------------------------------------------------------------------------
(* Specification SpecMonsterBook: main of extract_dmb.py, step by step     *)

DMB_PDF_PATH == "tmp/etl/DMB.pdf"

DmbOutputPath(name) == OUTPUT_DIR \o "/" \o name

SectionTitle(text) == Span(text, "Winona", 520)

DropCap(text) == Span(text, "ZallmanCaps", 400)

AnimalsPage ==
    PlacedInOrder(
        <<SectionTitle("Animals"), DropCap("A"), AppendixName("ANT, GIANT"),
          MetaLine("Small animal"), StatLabel("Level"), StatValue("2"),
          AbilityLabel("Swarm:"), BodyText("Attacks in numbers")>>)

AdventurersPage ==
    PlacedInOrder(
        <<SectionTitle("Adventurers"), DropCap("E"), AppendixName("BARD"),
          VariantLabel("Level 1 Bard"), StatLabel("Level"), StatValue("1"),
          AbilityLabel("Songs:"), BodyText("Counter charm")>>)

MortalsPage ==
    PlacedInOrder(
        <<SectionTitle("Everyday Mortals"), Description("Common folk"),
          AppendixName("ANGLER"), BodyText("Found by the water"),
          SidebarMarker("Everyday Mortal"), MetaLine("Small/Medium mortal"),
          StatLabel("Level"), StatValue("1")>>)

CreditsPage == PlacedInOrder(<<SectionTitle("Credits")>>)

\* a document of n pages: two bestiary pages, then the appendix pages given,
\* from page index APPENDIX_FIRST on
MonsterBook(n, appendix) ==
    [len |-> n,
     pages |-> [p \in 0..(n - 1) |->
                   IF p = BESTIARY_FIRST THEN StatPage
                   ELSE IF p = BESTIARY_FIRST + 1 THEN LateNamePage
                   ELSE IF /\ p >= APPENDIX_FIRST
                           /\ p < APPENDIX_FIRST + Len(appendix)
                   THEN appendix[p - APPENDIX_FIRST + 1]
                   ELSE BlankPage]]

\* the length of the documents with appendices
MonsterBookLength == 108

\* documents of fewer pages: none, some of the bestiary, the bestiary alone
ShortMonsterBooks == {0, 50, 103}

MonsterBookDocuments ==
    {MonsterBook(MonsterBookLength, appendix) :
        appendix \in {<<AnimalsPage, AdventurersPage, MortalsPage, CreditsPage>>,
                      <<AdventurersPage, BlankPage, MortalsPage>>,
                      <<MortalsPage, AnimalsPage>>,
                      <<AnimalsPage, AnimalsPage>>,
                      <<AdventurersPage>>, <<MortalsPage>>,
                      <<AnimalsPage, CreditsPage>>,
                      <<CreditsPage>>}}
    \cup {MonsterBook(n, <<>>) : n \in ShortMonsterBooks}

\* the disk before the run: no output directory, an empty one, one with the
\* bestiary file of an earlier run
MonsterBookDisks ==
    {[dirs |-> {}, files |-> EmptyDict, log |-> <<>>],
     [dirs |-> {OUTPUT_DIR}, files |-> EmptyDict, log |-> <<>>],
     [dirs |-> {OUTPUT_DIR},
      files |-> (DmbOutputPath("dmb-bestiary.json") :> <<>>), log |-> <<>>]}

InitMonsterBook ==
    /\ Idle("run")
    /\ fs \in MonsterBookDisks
    /\ pc = "dmb main"
    /\ args \in {[pdf_exists |-> FALSE]}
                \cup {[pdf_exists |-> TRUE, doc |-> d]
                         : d \in MonsterBookDocuments}
    /\ ret = None
    /\ locals = [ranges |-> EmptyDict]

\* os.path.exists(pdf_path), sys.exit(1); os.makedirs, fitz.open
OpenMonsterBook ==
    /\ pc = "dmb main"
    /\ IF args.pdf_exists
       THEN /\ fs' = open_document(makedirs(fs, OUTPUT_DIR), DMB_PDF_PATH)
            /\ pc' = "dmb bestiary"
       ELSE /\ fs' = fs
            /\ pc' = "exit 1"
    /\ UNCHANGED <<args, ret, locals>>
    /\ Frame("run")

\* 1. extract_bestiary and the write of dmb-bestiary.json
WriteBestiary ==
    /\ pc = "dmb bestiary"
    /\ LET bestiary == extract_bestiary(args.doc)
       IN  IF bestiary.raised
           THEN pc' = "raised" /\ fs' = fs
           ELSE /\ fs' = write_json(fs, DmbOutputPath("dmb-bestiary.json"),
                                   bestiary.value)
                /\ pc' = "dmb ranges"
    /\ UNCHANGED <<args, ret, locals>>
    /\ Frame("run")

\* 2. find_appendix_ranges
FindAppendixRanges ==
    /\ pc = "dmb ranges"
    /\ locals' = [locals EXCEPT !.ranges = find_appendix_ranges(args.doc)]
    /\ pc' = "dmb animals"
    /\ UNCHANGED <<args, ret>>
    /\ Frame("call")

\* 3. and 5. extract_appendix_creatures and the write of its file, when the
\* section was found
AppendixStep(at, next, key, section_name, file) ==
    /\ pc = at
    /\ IF key \in DOMAIN locals.ranges
       THEN fs' = write_json(fs, DmbOutputPath(file),
                             extract_appendix_creatures(
                                 args.doc, locals.ranges[key][1],
                                 locals.ranges[key][2], section_name))
       ELSE fs' = fs
    /\ pc' = next
    /\ UNCHANGED <<args, ret, locals>>
    /\ Frame("run")

WriteAnimals ==
    AppendixStep("dmb animals", "dmb mortals", "Animals", "animals",
                 "dmb-animals.json")

\* 4. extract_mortals and the write of dmb-mortals.json
WriteMortals ==
    /\ pc = "dmb mortals"
    /\ IF "Everyday Mortals" \in DOMAIN locals.ranges
       THEN fs' = write_json(fs, DmbOutputPath("dmb-mortals.json"),
                             extract_mortals(
                                 args.doc,
                                 locals.ranges["Everyday Mortals"][1],
                                 locals.ranges["Everyday Mortals"][2]))
       ELSE fs' = fs
    /\ pc' = "dmb adventurers"
    /\ UNCHANGED <<args, ret, locals>>
    /\ Frame("run")

WriteAdventurers ==
    AppendixStep("dmb adventurers", "dmb close", "Adventurers", "adventurers",
                 "dmb-adventurers.json")

\* doc.close()
CloseMonsterBook ==
    /\ pc = "dmb close"
    /\ fs' = close_document(fs, DMB_PDF_PATH)
    /\ pc' = "done"
    /\ UNCHANGED <<args, ret, locals>>
    /\ Frame("run")

NextMonsterBook ==
    \/ OpenMonsterBook
    \/ WriteBestiary
    \/ FindAppendixRanges
    \/ WriteAnimals
    \/ WriteMortals
    \/ WriteAdventurers
    \/ CloseMonsterBook

SpecMonsterBook == InitMonsterBook /\ [][NextMonsterBook]_vars

-----------------------------------------------------------------------------
(* Specification SpecFontTools: a run of either font-aware tool             *)

InitFontTools == InitMain \/ InitMonsterBook

NextFontTools == NextMain \/ NextMonsterBook

SpecFontTools == InitFontTools /\ [][NextFontTools]_vars


\* where a run of either tool starts
RunStarts == {"main", "dmb main"}

\* C17: in a run of either font-aware tool whose pdf_path does not exist,
\* the only step ends the run with exit status 1 and leaves the disk as it
\* was: no directory created, no document opened, no file written. In a run
\* whose pdf_path exists, every state after the first step has output_dir on
\* disk, and the first file operation of the run is the makedirs of
\* output_dir, before the document is opened and before any write.
C17_MissingInput ==
    /\ [](~args.pdf_exists =>
              /\ pc \in RunStarts \cup {"exit 1"}
              /\ fs.log = <<>>)
    /\ [][~args.pdf_exists => pc' = "exit 1" /\ fs' = fs]_vars
    /\ [](args.pdf_exists /\ pc \notin RunStarts =>
              /\ OUTPUT_DIR \in fs.dirs
              /\ fs.log[1] = FileOp("makedirs", OUTPUT_DIR)
              /\ \A k \in 2..Len(fs.log) : fs.log[k].op # "makedirs")

\* the Monster Book tool without its PDF and without an output directory
C17_Witness ==
    /\ pc = "exit 1"
    /\ "ranges" \in DOMAIN locals
    /\ ~args.pdf_exists
    /\ fs = [dirs |-> {}, files |-> EmptyDict, log |-> <<>>]

-----------------------------------------------------------------------------
(* extract_raw_text.py: a PDF on disk is the list of the plain texts of its *)
(* pages, a text file its content                                           *)

\* PDF_TARGETS
PDF_TARGETS == <<<<"DMB.pdf", "dmb-raw.txt">>, <<"DCB.pdf", "dcb-raw.txt">>>>

\* os.path.join(a, b)
path_join(a, b) == a \o "/" \o b

\* the directory three levels above the script's
PROJECT_ROOT == "/repo"

DEFAULT_INPUT_DIR == path_join(path_join(PROJECT_ROOT, "etl"), "input")

DEFAULT_OUTPUT_DIR ==
    path_join(path_join(path_join(PROJECT_ROOT, "etl"), "output"), "extract")

\* os.path.exists(path)
path_exists(disk, path) == path \in disk.dirs \/ path \in DOMAIN disk.files

\* what the loop of extract_text writes from page page_num on
RECURSIVE written_from(_, _)
written_from(doc, page_num) ==
    IF page_num >= Len(doc) THEN ""
    ELSE doc[page_num + 1]
             \o (IF page_num < Len(doc) - 1 THEN "\n\n" ELSE "")
             \o written_from(doc, page_num + 1)

\* extract_text opening the output file for appending
extract_text_append(disk, pdf_path, output_path) ==
    LET doc == disk.files[pdf_path]
        before == IF output_path \in DOMAIN disk.files
                  THEN disk.files[output_path] ELSE ""
    IN  [disk EXCEPT
            !.files = SetItem(@, output_path, before \o written_from(doc, 0)),
            !.log = @ \o <<FileOp("fitz.open", pdf_path),
                           FileOp("write", output_path),
                           FileOp("close", pdf_path)>>]

\* extract_text: the output file is opened with "w" and holds what the loop
\* writes
extract_text(disk, pdf_path, output_path) ==
    LET doc == disk.files[pdf_path]
    IN  [disk EXCEPT
            !.files = SetItem(@, output_path, written_from(doc, 0)),
            !.log = @ \o <<FileOp("fitz.open", pdf_path),
                           FileOp("write", output_path),
                           FileOp("close", pdf_path)>>]

-----------------------------------------------------------------------------
(* Specification SpecRawText: main of extract_raw_text.py, run twice on    *)
(* the same disk                                                            *)

MaxRawPages == 2

RawPageTexts == {"", "Goblin" \o "\n", "a" \o "\n\n" \o "b"}

\* the PDFs: one to MaxRawPages pages
RawDocuments ==
    UNION {[1..n -> RawPageTexts] : n \in 1..MaxRawPages}

\* the positional arguments of the invocations
RawArguments == {<<>>, <<"books">>, <<"books", "texts">>, <<"books", "books">>}

\* the directory the PDFs of an invocation are in
RawInputDir(argv) == IF argv = <<>> THEN DEFAULT_INPUT_DIR ELSE argv[1]

\* the disks before the first run, for the arguments given: each PDF in the
\* input directory or not, and the first output file left by an earlier run
\* or not
RawDisks(argv) ==
    {[dirs |-> {RawInputDir(argv)},
      files |-> dmb @@ dcb @@ stale,
      log |-> <<>>]
        : dmb \in {EmptyDict}
                  \cup {path_join(RawInputDir(argv), "DMB.pdf") :> d
                           : d \in RawDocuments},
          dcb \in {EmptyDict,
                   path_join(RawInputDir(argv), "DCB.pdf")
                       :> <<"Coins" \o "\n", "Riches" \o "\n">>},
          stale \in {EmptyDict,
                     path_join(IF Len(argv) >= 2 THEN argv[2]
                               ELSE IF Len(argv) = 1 THEN argv[1]
                               ELSE DEFAULT_OUTPUT_DIR, "dmb-raw.txt")
                         :> "stale"}}

InitRawText ==
    /\ Idle("run")
    /\ pc = "raw main"
    /\ \E argv \in RawArguments :
           /\ args = [argv |-> argv]
           /\ fs \in RawDisks(argv)
    /\ locals = <<>>
    /\ ret = <<>>

\* main reading and writing one directory whatever the arguments
RawDirectories_one_directory ==
    /\ pc = "raw main"
    /\ LET argv == args.argv
           input_dir == IF Len(argv) >= 1 THEN argv[1] ELSE DEFAULT_INPUT_DIR
       IN  /\ locals' = [input_dir |-> input_dir, output_dir |-> input_dir,
                         extracted |-> 0, skipped |-> 0, i |-> 1]
           /\ fs' = makedirs(fs, input_dir)
    /\ pc' = "raw targets"
    /\ UNCHANGED <<args, ret>>
    /\ Frame("run")

\* main up to the loop: the directories, os.makedirs, the counters
RawDirectories ==
    /\ pc = "raw main"
    /\ LET argv == args.argv
           input_dir == IF Len(argv) >= 1 THEN argv[1] ELSE DEFAULT_INPUT_DIR
           output_dir == IF Len(argv) >= 2 THEN argv[2]
                         ELSE IF Len(argv) = 1 THEN argv[1]
                         ELSE DEFAULT_OUTPUT_DIR
       IN  /\ locals' = [input_dir |-> input_dir, output_dir |-> output_dir,
                         extracted |-> 0, skipped |-> 0, i |-> 1]
           /\ fs' = makedirs(fs, output_dir)
    /\ pc' = "raw targets"
    /\ UNCHANGED <<args, ret>>
    /\ Frame("run")

\* the loop left at the first PDF that is not there
RawTarget_stop_at_missing ==
    /\ pc = "raw targets"
    /\ locals.i <= Len(PDF_TARGETS)
    /\ LET pdf_path == path_join(locals.input_dir, PDF_TARGETS[locals.i][1])
           txt_path == path_join(locals.output_dir, PDF_TARGETS[locals.i][2])
           looked == [fs EXCEPT !.log = Append(@, FileOp("exists", pdf_path))]
       IN  IF ~path_exists(fs, pdf_path)
           THEN /\ fs' = looked
                /\ locals' = [locals EXCEPT !.skipped = @ + 1,
                                            !.i = Len(PDF_TARGETS) + 1]
           ELSE /\ fs' = extract_text(looked, pdf_path, txt_path)
                /\ locals' = [locals EXCEPT !.extracted = @ + 1, !.i = @ + 1]
    /\ UNCHANGED <<pc, args, ret>>
    /\ Frame("run")

\* one pass of `for pdf_name, txt_name in PDF_TARGETS`
RawTarget ==
    /\ pc = "raw targets"
    /\ locals.i <= Len(PDF_TARGETS)
    /\ LET pdf_path == path_join(locals.input_dir, PDF_TARGETS[locals.i][1])
           txt_path == path_join(locals.output_dir, PDF_TARGETS[locals.i][2])
           looked == [fs EXCEPT !.log = Append(@, FileOp("exists", pdf_path))]
       IN  IF ~path_exists(fs, pdf_path)
           THEN /\ fs' = looked
                /\ locals' = [locals EXCEPT !.skipped = @ + 1, !.i = @ + 1]
           ELSE /\ fs' = extract_text(looked, pdf_path, txt_path)
                /\ locals' = [locals EXCEPT !.extracted = @ + 1, !.i = @ + 1]
    /\ UNCHANGED <<pc, args, ret>>
    /\ Frame("run")

\* the end of main: exit status 0; ret keeps the files each run left
RawDone ==
    /\ pc = "raw targets"
    /\ locals.i > Len(PDF_TARGETS)
    /\ ret' = Append(ret, fs.files)
    /\ pc' = "done"
    /\ UNCHANGED <<args, locals, fs>>
    /\ Frame("run")

\* the same invocation once more, on the disk the first run left
RawSecondRun ==
    /\ pc = "done"
    /\ Len(ret) = 1
    /\ pc' = "raw main"
    /\ locals' = <<>>
    /\ fs' = [fs EXCEPT !.log = <<>>]
    /\ UNCHANGED <<args, ret>>
    /\ Frame("run")

NextRawText == RawDirectories \/ RawTarget \/ RawDone \/ RawSecondRun

SpecRawText == InitRawText /\ [][NextRawText]_vars


-----------------------------------------------------------------------------
(* extract_raw_text.py: directories, independence of the targets, two runs  *)

\* os.path.dirname(path)
RECURSIVE dirname(_)
dirname(path) ==
    IF Len(path) = 0 THEN ""
    ELSE IF Char(path, Len(path)) = "/" THEN SubSeq(path, 1, Len(path) - 1)
    ELSE dirname(SubSeq(path, 1, Len(path) - 1))

\* the paths of the operations of one kind the run has made so far
PathsOf(disk, op) ==
    {disk.log[k].path : k \in {j \in 1..Len(disk.log) : disk.log[j].op = op}}

\* the directories the run has looked for PDFs in and written text files to
LookupDirs == {dirname(p) : p \in PathsOf(fs, "exists")}

WriteDirs == {dirname(p) : p \in PathsOf(fs, "write")}

\* C18 as stated: with zero or one positional argument the PDFs are looked
\* up in the directory the text files are written to.
C18_AsStated ==
    Len(args.argv) <= 1 =>
        \A looked \in LookupDirs : \A written \in WriteDirs : looked = written

\* C18: with one positional argument the PDFs are looked up in that
\* directory and the text files written to it; with no argument the PDFs are
\* looked up in <project root>/etl/input and the text files written to
\* <project root>/etl/output/extract, which main creates; with two or more
\* arguments the first is the lookup directory and the second the output
\* directory.
C18_Directories ==
    LET argv == args.argv
        input_dir == IF argv = <<>> THEN DEFAULT_INPUT_DIR ELSE argv[1]
        output_dir == IF argv = <<>> THEN DEFAULT_OUTPUT_DIR
                      ELSE IF Len(argv) = 1 THEN argv[1] ELSE argv[2]
    IN  /\ DEFAULT_INPUT_DIR # DEFAULT_OUTPUT_DIR
        /\ LookupDirs \subseteq {input_dir}
        /\ WriteDirs \subseteq {output_dir}
        /\ PathsOf(fs, "makedirs") \subseteq {output_dir}
        /\ pc # "raw main" =>
               /\ PathsOf(fs, "makedirs") = {output_dir}
               /\ output_dir \in fs.dirs
        /\ pc = "done" =>
               LookupDirs = {input_dir}

\* no argument, both PDFs in etl/input: both text files in etl/output/extract
C18_Witness ==
    /\ pc = "done"
    /\ args.argv = <<>>
    /\ PathsOf(fs, "exists") =
           {path_join(DEFAULT_INPUT_DIR, "DMB.pdf"),
            path_join(DEFAULT_INPUT_DIR, "DCB.pdf")}
    /\ PathsOf(fs, "write") =
           {path_join(DEFAULT_OUTPUT_DIR, "dmb-raw.txt"),
            path_join(DEFAULT_OUTPUT_DIR, "dcb-raw.txt")}

\* the targets whose PDF is in the lookup directory
PresentTargets ==
    {k \in DOMAIN PDF_TARGETS :
        path_exists(fs, path_join(RawInputDir(args.argv), PDF_TARGETS[k][1]))}

\* the text file of the k-th target
RawOutputPath(k) == path_join(locals.output_dir, PDF_TARGETS[k][2])

\* C19: the run never ends otherwise than at the end of main, with exit
\* status 0; at the end both PDFs have been looked for, the text file of a
\* target has been written exactly when its PDF exists, extracted counts the
\* PDFs that exist and skipped the others, and extracted + skipped = 2.
C19_Independence ==
    /\ pc \in {"raw main", "raw targets", "done"}
    /\ pc = "done" =>
           /\ \A k \in DOMAIN PDF_TARGETS :
                  /\ path_join(locals.input_dir, PDF_TARGETS[k][1])
                         \in PathsOf(fs, "exists")
                  /\ RawOutputPath(k) \in PathsOf(fs, "write")
                         <=> k \in PresentTargets
           /\ Cardinality(PathsOf(fs, "write")) = Cardinality(PresentTargets)
           /\ locals.extracted = Cardinality(PresentTargets)
           /\ locals.skipped = Len(PDF_TARGETS) - Cardinality(PresentTargets)
           /\ locals.extracted + locals.skipped = 2

\* only DCB.pdf is there: DMB.pdf is skipped and dcb-raw.txt written
C19_Witness ==
    /\ pc = "done"
    /\ PresentTargets = {2}
    /\ locals.extracted = 1
    /\ locals.skipped = 1
    /\ PathsOf(fs, "write") = {RawOutputPath(2)}
    /\ fs.files[RawOutputPath(2)] = "Coins" \o "\n" \o "\n\n" \o "Riches" \o "\n"

\* the page texts of doc with a blank-line separator between consecutive
\* pages
RECURSIVE JoinedPages(_)
JoinedPages(doc) ==
    IF Len(doc) = 0 THEN ""
    ELSE IF Len(doc) = 1 THEN doc[1]
    ELSE JoinedPages(SubSeq(doc, 1, Len(doc) - 1)) \o "\n\n" \o doc[Len(doc)]

\* C20: at the end of a run the text file of every PDF that exists holds the
\* page texts in page order with "\n\n" between consecutive pages and
\* nothing after the last, whatever the file held before; at the end of the
\* second run every file on disk has the content it had at the end of the
\* first.
C20_Idempotence ==
    pc = "done" =>
        /\ \A k \in PresentTargets :
               fs.files[RawOutputPath(k)] =
                   JoinedPages(fs.files[path_join(locals.input_dir,
                                                  PDF_TARGETS[k][1])])
        /\ ret[Len(ret)] = fs.files
        /\ Len(ret) = 2 => ret[2] = ret[1]

\* the second run over a two-page PDF, the text file of an earlier run
\* having been there before the first
C20_Witness ==
    /\ pc = "done"
    /\ Len(ret) = 2
    /\ args.argv = <<"books", "texts">>
    /\ fs.files[path_join("books", "DMB.pdf")] =
           <<"Goblin" \o "\n", "a" \o "\n\n" \o "b">>
    /\ ret[1][path_join("texts", "dmb-raw.txt")] =
           "Goblin" \o "\n" \o "\n\n" \o "a" \o "\n\n" \o "b"
    /\ PathsOf(fs, "write") = {path_join("texts", "dmb-raw.txt")}

-----------------------------------------------------------------------------
(* Specification SpecCompactRuns: _parse_compact_creature, span by span,   *)
(* on every run of up to MaxRunUnits units, a unit being a variant label   *)
(* with its first stat, a meta line, a stat label with its value, or an    *)
(* ability label with or without text                                      *)

MaxRunUnits == 5

RunUnits ==
    {<<VariantLabel("Level 1 Bard"), StatLabel("Level"), StatValue("1")>>,
     <<VariantLabel("Level 3 Bard"), StatLabel("Level"), StatValue("3")>>,
     <<MetaLine("Medium mortal")>>,
     <<StatLabel("Att"), StatValue("Weapon")>>,
     <<AbilityLabel("Skills:"), BodyText("Listen 5")>>,
     <<AbilityLabel("Magic:")>>}

RECURSIVE UnitRuns(_, _)
UnitRuns(units, n) ==
    IF n = 0 THEN {<<>>}
    ELSE LET shorter == UnitRuns(units, n - 1)
         IN  shorter \cup {r \o u : r \in shorter, u \in units}

InitCompactRuns ==
    /\ Idle("call")
    /\ pc = "loop"
    /\ args \in {[name |-> "BARD", spans |-> r, section_name |-> "adventurers"]
                    : r \in UnitRuns(RunUnits, MaxRunUnits)}
    /\ locals = [i |-> 1, st |-> compact_locals("BARD")]
    /\ ret = None

SpecCompactRuns == InitCompactRuns /\ [][NextCompact]_vars

\* the stat and the ability a state of the parser holds open: a label with
\* what was accumulated under it
HasOpenStat(st) ==
    st.current_stat_label # None /\ st.current_stat_values # <<>>

HasOpenAbility(st) ==
    st.current_ability_label # None /\ st.current_ability_text # <<>>

\* the stats and abilities of the context that is active in a state, and
\* of the same context in a later state in which the variant, if one was
\* open, has been emitted as the last of the creature's variants
ContextAbilities(st) ==
    IF st.active_variant_label # None THEN st.current_variant_abilities
    ELSE st.creature.abilities

LastVariant(st) == st.creature.variants[Len(st.creature.variants)]

EmittedStats(pre, post) ==
    IF pre.current_variant_label # None
    THEN IF Len(post.creature.variants) > Len(pre.creature.variants)
         THEN LastVariant(post).stats ELSE EmptyDict
    ELSE post.creature.stats

EmittedAbilities(pre, post) ==
    IF pre.active_variant_label # None
    THEN IF Len(post.creature.variants) > Len(pre.creature.variants)
         THEN AbilitiesOf(LastVariant(post)) ELSE <<>>
    ELSE post.creature.abilities

\* what was open in pre has been stored in post, in the context active in
\* pre, and that context's variant has been emitted
FlushedInto(pre, post) ==
    /\ HasOpenStat(pre) =>
           LET key == compact_stat_key(pre.current_stat_label[1])
           IN  /\ key \in DOMAIN EmittedStats(pre, post)
               /\ EmittedStats(pre, post)[key] =
                      strip(join(pre.current_stat_values))
    /\ HasOpenAbility(pre) =>
           EmittedAbilities(pre, post) =
               Append(ContextAbilities(pre), compact_ability(pre))
    /\ pre.current_variant_label # None
       /\ (DOMAIN pre.current_variant_stats # {} \/ HasOpenStat(pre)) =>
           /\ Len(post.creature.variants) = Len(pre.creature.variants) + 1
           /\ LastVariant(post).label = pre.current_variant_label[1]

\* the position of the last variant label read before position i, or 0
RECURSIVE LastVariantStart(_, _)
LastVariantStart(entry, i) ==
    IF i <= 1 THEN 0
    ELSE IF IsVariantStart(entry[i - 1]) THEN i - 1
    ELSE LastVariantStart(entry, i - 1)

\* the names of the abilities and the keys of the stats whose label span
\* is at one of the positions from..to - 1
AbilityNamesIn(entry, from, to) ==
    {rstrip_char(strip(entry[j].text), ":") :
        j \in {k \in from..(to - 1) : IsAbilityStart(entry[k])}}

StatKeysIn(entry, from, to) ==
    {compact_stat_key(strip(entry[j].text)) :
        j \in {k \in from..(to - 1) :
                  IsRead(entry[k]) /\ is_stat_label_font(entry[k])}}

ReadingVariantLabel ==
    /\ pc = "loop"
    /\ locals.i <= Len(args.spans)
    /\ IsVariantStart(args.spans[locals.i])

\* C21: when a variant-label span arrives, the open stat and the open
\* ability (a label with accumulated values or text) are stored in the
\* context that was active before it and the previously open variant is
\* emitted, and the new variant is opened with nothing in it; so the open
\* variant never holds, stored or pending, a stat or an ability whose label
\* span came before its own label.
C21_VariantTransition ==
    /\ [][ReadingVariantLabel =>
              /\ FlushedInto(locals.st, locals'.st)
              /\ ~HasOpenStat(locals'.st) /\ ~HasOpenAbility(locals'.st)
              /\ locals'.st.current_variant_label =
                     Some(strip(args.spans[locals.i].text))
              /\ locals'.st.current_variant_stats = EmptyDict
              /\ locals'.st.current_variant_abilities = <<>>]_vars
    /\ [](pc = "loop" /\ locals.st.current_variant_label # None =>
              LET from == LastVariantStart(args.spans, locals.i)
                  names == AbilityNamesIn(args.spans, from, locals.i)
                  keys == StatKeysIn(args.spans, from, locals.i)
                  st == locals.st
              IN  /\ \A k \in 1..Len(st.current_variant_abilities) :
                         st.current_variant_abilities[k].name \in names
                  /\ HasOpenAbility(st) =>
                         rstrip_char(st.current_ability_label[1], ":")
                             \in names
                  /\ DOMAIN st.current_variant_stats \subseteq keys)

ReachingEnd == pc = "loop" /\ locals.i > Len(args.spans)

\* C23: at the end of the creature the open stat, the open ability and the
\* open variant are flushed, in that order: the stat and the ability are
\* stored in the context that was active (the open variant or the
\* creature), the variant is emitted after them, and nothing stays open.
C23_EndOfCreature ==
    [][ReachingEnd =>
           /\ FlushedInto(locals.st, locals'.st)
           /\ ~HasOpenStat(locals'.st) /\ ~HasOpenAbility(locals'.st)
           /\ locals'.st.current_variant_label = None]_vars

-----------------------------------------------------------------------------
(* Specification SpecBestiaryStream: _parse_bestiary_spans, span by span,  *)
(* on a name and a meta line followed by up to MaxStreamUnits units: a     *)
(* stat line, an ability, a section header, a numbered entry or a further  *)
(* span in the font of creature names                                      *)

MaxStreamUnits == 5

StreamUnits ==
    {<<BigStatLabel("Level"), StatValue("3")>>,
     <<AbilityLabel("Dark sight:"), BodyText("Sees in the dark")>>,
     <<SectionHeader("ENCOUNTERS")>>,
     <<SectionHeader("LAIRS")>>,
     <<EntryNumber("1"), BodyText("Goblin patrol")>>,
     <<CreatureName("Goblin King")>>}

BestiaryStreams ==
    {<<CreatureName("Goblin"), MetaLine("Small fairy")>> \o r :
        r \in UnitRuns(StreamUnits, MaxStreamUnits)}

InitBestiaryStream ==
    /\ Idle("call")
    /\ pc = "parse loop"
    /\ args \in {[creature |-> BestiaryCreature("Goblin"), spans |-> s] :
                    s \in BestiaryStreams}
    /\ locals = [st |-> bestiary_locals(BestiaryCreature("Goblin")), i |-> 1]
    /\ ret = None

SpecBestiaryStream == InitBestiaryStream /\ [][NextStatBlock]_vars

\* what a creature record holds: the keys of its stats and of its stat
\* fields that are set, the names of its abilities in order, and the
\* section and roll of each of its section entries
RollsOf(section, entries) ==
    {<<section, entries[k].roll>> : k \in 1..Len(entries)}

Written(creature) ==
    [stats |-> DOMAIN creature.stats
                   \cup {key \in EnrichmentKeys : creature[key] # ""},
     abilities |-> [k \in 1..Len(creature.abilities) |->
                        creature.abilities[k].name],
     entries |-> UNION {RollsOf(s, creature.sections[s]) :
                           s \in DOMAIN creature.sections}]

\* what the parser holds in a state: what is written, what the open section
\* has gathered, and the stat, ability and entry that are open with a label
\* and at least one value or text span
Held(st) ==
    LET written == Written(st.creature)
    IN  [stats |-> written.stats
                       \cup (IF /\ st.current_stat_label # None
                                /\ st.current_stat_values # <<>>
                             THEN {lower(st.current_stat_label[1])} ELSE {}),
         abilities |-> written.abilities
                           \o (IF /\ st.current_ability_label # None
                                  /\ st.current_ability_text # <<>>
                               THEN <<rstrip_char(st.current_ability_label[1],
                                                  ":")>>
                               ELSE <<>>),
         entries |-> written.entries
                         \cup (IF st.current_section_name # None
                               THEN RollsOf(st.current_section_name[1],
                                            st.current_section_entries)
                                    \cup (IF /\ st.current_entry_num # None
                                             /\ st.current_entry_text # <<>>
                                          THEN {<<st.current_section_name[1],
                                                  st.current_entry_num[1]>>}
                                          ELSE {})
                               ELSE {})]

IsPrefix(s, t) == Len(s) <= Len(t) /\ SubSeq(t, 1, Len(s)) = s

KeptIn(before, after) ==
    /\ before.stats \subseteq after.stats
    /\ IsPrefix(before.abilities, after.abilities)
    /\ before.entries \subseteq after.entries

\* C22: no step of the parse loses what the parser holds (a stat, an
\* ability or a section entry that has a label and at least one value or
\* text span, written or still open), and when the parse ends all of it is
\* in the creature record.
C22_NothingLost ==
    [][pc = "parse loop" =>
           KeptIn(Held(locals.st),
                  IF pc' = "done" THEN Written(ret'[1])
                  ELSE Held(locals'.st))]_vars

-----------------------------------------------------------------------------
(* Specification SpecSkipZone: the two passes and the merge of             *)
(* extract_mortals, span by span, on the spans of a section of up to       *)
(* MaxSectionUnits units: a named entry, a flavor ability, a table with    *)
(* one entry, or the sidebar marker                                        *)

MaxSectionUnits == 5

SmallText(text) == Span(text, "TheAntiquaB-W5Plain", 85)

SectionUnits ==
    {<<AppendixName("ANGLER"), BodyText("Found by the water")>>,
     <<AppendixName("BEGGAR")>>,
     <<AbilityLabel("Catch:"), BodyText("Fresh fish")>>,
     <<SectionHeader("TRINKETS"), EntryNumber("1."), SmallText("A hook")>>,
     <<SidebarMarker("Everyday Mortal")>>}

InitSkipZone ==
    /\ Idle("call")
    /\ pc = "pass 1"
    /\ args \in {[all_spans |-> s] :
                    s \in UnitRuns(SectionUnits, MaxSectionUnits)}
    /\ locals = [i |-> 1, mutated |-> 0, st |-> mortals_locals(args.all_spans)]
    /\ ret = None

NextMortalPasses ==
    \/ Pass1Span \/ Pass1End \/ Pass2Span \/ Pass2End
    \/ MergeMortal \/ ReturnMortals

SpecSkipZone == InitSkipZone /\ [][NextMortalPasses]_vars

\* a span of pass 2 that is a sidebar marker, an appendix creature name
IsSidebarMarker(span) ==
    strip(span.text) # "" /\ Contains(span.font, "W9Black")

IsAppendixName(span) ==
    strip(span.text) # "" /\ is_appendix_creature_name_font(span)

\* the mortal in progress with what has been gathered for it: its
\* description joined, its flavor abilities with the open one, its sections
\* with the open one and its entries
GatheredMortal(st) ==
    LET m == st.current_mortal[1]
        open_flavor ==
            IF st.current_flavor_label # None /\ st.current_flavor_text # <<>>
            THEN <<labelled_text(st.current_flavor_label[1],
                                 st.current_flavor_text)>>
            ELSE <<>>
        open_entry ==
            IF st.current_entry_num # None /\ st.current_entry_text # <<>>
            THEN <<[roll |-> st.current_entry_num[1],
                    text |-> remove_soft_hyphens(
                                 strip(join(st.current_entry_text)))]>>
            ELSE <<>>
        entries == st.current_section_entries \o open_entry
    IN  [name |-> m.name,
         description_parts |->
             IF m.description_parts = <<>> THEN <<>>
             ELSE <<strip(join(m.description_parts))>>,
         flavor |-> m.flavor \o open_flavor,
         sections |->
             IF st.current_section_name # None /\ entries # <<>>
             THEN SetItem(m.sections, st.current_section_name[1], entries)
             ELSE m.sections]

\* the spans without those that lie between a sidebar marker and the next
\* appendix creature name
RECURSIVE OutsideZones(_, _, _)
OutsideZones(spans, i, in_zone) ==
    IF i > Len(spans) THEN <<>>
    ELSE IF IsSidebarMarker(spans[i])
    THEN <<spans[i]>> \o OutsideZones(spans, i + 1, TRUE)
    ELSE IF in_zone /\ ~IsAppendixName(spans[i])
    THEN OutsideZones(spans, i + 1, TRUE)
    ELSE <<spans[i]>> \o OutsideZones(spans, i + 1, FALSE)

\* C24: in pass 2 a sidebar marker read outside the skip zone saves the
\* mortal in progress with exactly what was gathered before it and sets the
\* flag; the flag is set by nothing else and cleared only by an appendix
\* creature name, which starts a new mortal; a span read inside the zone
\* that is not such a name changes nothing, and the mortals of pass 2 are
\* those of the section without the spans between a marker and the next
\* name.
C24_SkipZone ==
    /\ [][pc = "pass 2" /\ pc' = "pass 2" =>
              LET span == locals.st.all_spans[locals.i]
                  pre == locals.st
                  post == locals'.st
              IN  /\ IsSidebarMarker(span) /\ ~pre.in_skip_zone =>
                         /\ post.in_skip_zone
                         /\ post.current_mortal = None
                         /\ post.mortals =
                                IF pre.current_mortal # None
                                THEN Append(pre.mortals, GatheredMortal(pre))
                                ELSE pre.mortals
                  /\ ~pre.in_skip_zone /\ post.in_skip_zone =>
                         IsSidebarMarker(span)
                  /\ pre.in_skip_zone /\ ~post.in_skip_zone =>
                         /\ IsAppendixName(span)
                         /\ post.current_mortal =
                                Some(MortalEntry(
                                         _title_case_name(strip(span.text))))
                  /\ pre.in_skip_zone /\ ~IsAppendixName(span) =>
                         post = pre]_vars
    /\ [](pc = "merge" =>
              locals.st.mortals =
                  mortals_pass2(
                      mortals_locals(
                          OutsideZones(locals.st.all_spans, 1, FALSE)),
                      1).mortals)

\* Angler with a flavor ability, then the marker with a table after it,
\* then Beggar: the table is in neither mortal
C24_Witness ==
    /\ pc = "merge"
    /\ Len(OutsideZones(locals.st.all_spans, 1, FALSE))
           < Len(locals.st.all_spans)
    /\ locals.st.mortals =
           <<[name |-> "Angler",
              description_parts |-> <<"Found by the water">>,
              flavor |-> <<[name |-> "Catch", text |-> "Fresh fish"]>>,
              sections |-> EmptyDict],
             [name |-> "Beggar", description_parts |-> <<>>,
              flavor |-> <<>>, sections |-> EmptyDict]>>

-----------------------------------------------------------------------------
(* Specification SpecSharedRuns: extract_mortals, span by span, on a       *)
(* section of one named entry and the shared block: the marker, a run of   *)
(* up to MaxSharedUnits units (a meta line, a stat line, an ability), and  *)
(* the Basic Details table or nothing after it                             *)

MaxSharedUnits == 4

SharedUnits ==
    {<<MetaLine("Small/Medium mortal")>>,
     <<StatLabel("Level"), StatValue("1")>>,
     <<StatLabel("Att"), StatValue("Weapon")>>,
     <<AbilityLabel("Weapons:"), BodyText("Club or dagger")>>}

SharedTails ==
    {<<>>, <<SidebarMarker("Basic Details"), BodyText("d6 Sex")>>}

InitSharedRuns ==
    /\ Idle("call")
    /\ pc = "pass 1"
    /\ args \in {[run |-> r,
                  all_spans |-> <<AppendixName("ANGLER"),
                                  SidebarMarker("Everyday Mortal")>>
                                    \o r \o t] :
                    r \in UnitRuns(SharedUnits, MaxSharedUnits),
                    t \in SharedTails}
    /\ locals = [i |-> 1, mutated |-> 0, st |-> mortals_locals(args.all_spans)]
    /\ ret = None

SpecSharedRuns == InitSharedRuns /\ [][NextMortalPasses]_vars

\* C25: once pass 1 is over, the shared meta, stats and abilities are the
\* meta, the stats and the abilities of the creature that
\* _parse_compact_creature returns for the run of spans of the shared
\* block.
C25_SameLogic ==
    pc # "pass 1" =>
        LET compact == _parse_compact_creature("Everyday Mortal", args.run,
                                               "mortals")
        IN  compact # None =>
                /\ locals.st.shared_meta = compact[1].meta
                /\ locals.st.heap[locals.st.shared_stats] = compact[1].stats
                /\ locals.st.shared_abilities = compact[1].abilities

-----------------------------------------------------------------------------
(* Specification SpecTwoColumn: extract_two_column_table, span by span     *)

MaxTableUnits == 4

\* row labels (a number, the literal 00, two ranges, an open range), two cell
\* values and a footnote label
TableUnits ==
    {<<RowLabel("7")>>, <<RowLabel("00")>>, <<RowLabel("1~4")>>,
     <<RowLabel("96-00")>>, <<RowLabel("5-")>>,
     <<Cell("Anklet")>>, <<Cell("Brooch")>>, <<RowLabel("*")>>}

InitTwoColumn ==
    /\ Idle("call")
    /\ pc = "bounds"
    /\ args \in {[spans |-> <<SectionHeader("JEWELLERY"), ColumnHeader("d20")>>
                                \o r,
                  section_name |-> "JEWELLERY"]
                    : r \in UnitRuns(TableUnits, MaxTableUnits)}
    /\ locals = <<>>
    /\ ret = None

\* lines 903-927: the bounds of the table and the locals of the loop
TwoColumnBounds ==
    /\ pc = "bounds"
    /\ LET IsEnd(s) == \/ is_section_header(s)
                       \/ is_subsection_title(s)
                       \/ is_item_subsection_title(s)
           bounds == find_bounds(
                         headers_named(args.spans, args.section_name),
                         no_span(args.spans),
                         [i \in 1..Len(args.spans) |-> IsEnd(args.spans[i])])
       IN  IF bounds.start = None
           THEN /\ ret' = Returned(<<>>)
                /\ pc' = "return"
                /\ UNCHANGED locals
           ELSE /\ locals' = [i |-> 1, st |-> type_init,
                              table_spans |-> table_spans(args.spans,
                                                  bounds.start[1], bounds.end)]
                /\ pc' = "table loop"
                /\ UNCHANGED ret
    /\ UNCHANGED args
    /\ Frame("call")

\* one iteration of the loop at line 937
TwoColumnSpan ==
    /\ pc = "table loop"
    /\ locals.i <= Len(locals.table_spans)
    /\ ~locals.st.stop
    /\ locals' = [locals EXCEPT
                     !.st = two_column_step(@, locals.table_spans[locals.i]),
                     !.i = @ + 1]
    /\ UNCHANGED <<pc, args, ret>>
    /\ Frame("call")

\* lines 972-973: the flush after the loop and the return
TwoColumnReturn ==
    /\ pc = "table loop"
    /\ locals.i > Len(locals.table_spans) \/ locals.st.stop
    /\ locals' = [locals EXCEPT !.st = type_flush(@)]
    /\ ret' = returned_result(type_flush(locals.st))
    /\ pc' = "return"
    /\ UNCHANGED args
    /\ Frame("call")

NextTwoColumn == TwoColumnBounds \/ TwoColumnSpan \/ TwoColumnReturn

SpecTwoColumn == InitTwoColumn /\ [][NextTwoColumn]_vars

\* the printed rows of a table: each row label with the cell values that
\* follow it before the next row label, up to the footnote label
RECURSIVE LabelledCells(_, _)
LabelledCells(spans, rows) ==
    IF spans = <<>> THEN rows
    ELSE LET span == Head(spans)
             text == strip(span.text)
         IN  IF text = "" \/ is_column_header(span)
             THEN LabelledCells(Tail(spans), rows)
             ELSE IF is_row_label(span) /\ match_roll_label(text)
             THEN LabelledCells(Tail(spans),
                      Append(rows, [label |-> text, cells |-> <<>>]))
             ELSE IF is_cell_value(span) /\ rows # <<>>
             THEN LabelledCells(Tail(spans),
                      [rows EXCEPT ![Len(rows)].cells = Append(@, text)])
             ELSE IF is_row_label(span) /\ startswith(text, "*") THEN rows
             ELSE LabelledCells(Tail(spans), rows)

\* the printed rows that have a cell value
PrintedRows(spans) ==
    SelectSeq(LabelledCells(spans, <<>>), LAMBDA row : row.cells # <<>>)

\* the value of a bare-number label
LabelValue(label) == IF label = "00" THEN 100 ELSE int(label)

\* the bounds of a label a-b
LabelBounds(label) ==
    LET parts == split(replace(label, EN_DASH, "-"), "-")
    IN  <<int(parts[1]), IF parts[2] = "00" THEN 100 ELSE int(parts[2])>>

\* C26: in extract_two_column_table a row whose label is a bare number n is
\* emitted with min = max = the value of n, the literal 00 having the value
\* 100, which is the pair parse_roll_range returns for n alone; a row whose
\* label is a range a-b is emitted with min = a and max = b, an upper bound 00
\* meaning 100.
C26_RowLabels ==
    pc = "return" /\ ~ret.raised /\ locals # <<>> =>
        LET printed == PrintedRows(locals.table_spans)
        IN  /\ Len(ret.value) = Len(printed)
            /\ \A k \in 1..Len(printed) :
                   LET label == printed[k].label
                       row == ret.value[k]
                   IN  /\ match_number(label) =>
                           /\ row.min = LabelValue(label)
                           /\ row.max = LabelValue(label)
                           /\ Returned(<<row.min, row.max>>)
                                  = parse_roll_range(label)
                       /\ match_range(label) =>
                           <<row.min, row.max>> = LabelBounds(label)

\* a step of the loop that reads a second cell value under a row label
ReadingSecondValue ==
    /\ pc = "table loop" /\ pc' = "table loop"
    /\ is_cell_value(locals.table_spans[locals.i])
    /\ locals.st.current_range # None
    /\ locals.st.current_type # None

-----------------------------------------------------------------------------
(* Specification SpecHoardRows: extract_treasure_hoard_table, span by span *)

MaxHoardUnits == 4

\* two row labels, a hoard formula, three average values and an italic cell
HoardUnits ==
    {<<RowLabel("01~50")>>, <<RowLabel("51-00")>>, <<Cell("C1 + R1")>>,
     <<Cell("125gp")>>, <<Cell("1,600gp")>>, <<Cell("0gp")>>,
     <<ItalicCell("n/a")>>}

InitHoardRows ==
    /\ Idle("call")
    /\ pc = "bounds"
    /\ args \in {[spans |-> <<SectionHeader("TREASURE HOARD"),
                              ColumnHeader("d100")>> \o r]
                    : r \in UnitRuns(HoardUnits, MaxHoardUnits)}
    /\ locals = <<>>
    /\ ret = None

\* lines 1340-1371: the bounds of the table and the locals of the loop
TreasureHoardBounds ==
    /\ pc = "bounds"
    /\ LET IsEnd(s) ==
               \/ is_section_header(s) /\ strip(s.text) # "TREASURE HOARD"
               \/ is_subsection_title(s)
               \/ is_sidebar_header(s)
           start == find_first(headers_named(args.spans, "TREASURE HOARD"))
           end == find_end([i \in 1..Len(args.spans) |-> IsEnd(args.spans[i])],
                           start[1] + 1)
       IN  IF start = None
           THEN /\ ret' = Some(<<>>)
                /\ pc' = "return"
                /\ UNCHANGED locals
           ELSE /\ locals' = [i |-> 1, st |-> cells_init,
                              table_spans |->
                                  table_spans(args.spans, start[1], end)]
                /\ pc' = "hoard loop"
                /\ UNCHANGED ret
    /\ UNCHANGED args
    /\ Frame("call")

\* one iteration of the loop at line 1394
TreasureHoardSpan ==
    /\ pc = "hoard loop"
    /\ locals.i <= Len(locals.table_spans)
    /\ locals' = [locals EXCEPT
                     !.st = treasure_hoard_step(@, locals.table_spans[locals.i]),
                     !.i = @ + 1]
    /\ UNCHANGED <<pc, args, ret>>
    /\ Frame("call")

\* lines 1410-1411: the flush after the loop and the return
TreasureHoardReturn ==
    /\ pc = "hoard loop"
    /\ locals.i > Len(locals.table_spans)
    /\ locals' = [locals EXCEPT !.st = treasure_hoard_flush(@)]
    /\ ret' = Some(treasure_hoard_flush(locals.st).result)
    /\ pc' = "return"
    /\ UNCHANGED args
    /\ Frame("call")

NextHoardRows ==
    TreasureHoardBounds \/ TreasureHoardSpan \/ TreasureHoardReturn

SpecHoardRows == InitHoardRows /\ [][NextHoardRows]_vars

\* a step in which flush appends a row
EmittingHoardRow ==
    /\ pc = "hoard loop"
    /\ Len(locals'.st.result) = Len(locals.st.result) + 1

\* C28: a Treasure Hoard row is emitted from the cells accumulated for it: with
\* two cells or more, when the last cell parses as an average value (the
\* value 0 included) averageValue is that integer and description is the
\* other cells joined by spaces, and when it does not parse description is
\* every cell joined and averageValue is None; with one cell description is
\* that cell and averageValue is None.
C28_HoardRows ==
    [][EmittingHoardRow =>
           LET cells == locals.st.current_cells
               row == locals'.st.result[Len(locals'.st.result)]
               avg == parse_average_value(cells[Len(cells)])
           IN  /\ Len(cells) >= 2 /\ avg # None =>
                   /\ row.averageValue = avg
                   /\ row.description = join(all_but_last(cells))
               /\ Len(cells) >= 2 /\ avg = None =>
                   /\ row.averageValue = None
                   /\ row.description = join(cells)
               /\ Len(cells) = 1 =>
                   /\ row.averageValue = None
                   /\ row.description = cells[1]]_vars

-----------------------------------------------------------------------------
(* Specification SpecHoardTables: the rows of the COINS and RICHES tables  *)

MaxRowUnits == 4

\* two type codes, three cell values, an italic cell and a footnote label
RowUnits ==
    {<<RowLabel("C1")>>, <<RowLabel("C2")>>, <<Cell("25%")>>,
     <<Cell("1d4 gems")>>, <<Cell("25gp")>>, <<ItalicCell("~")>>,
     <<RowLabel("Ingots:")>>}

\* the spans with R-codes in place of C-codes
WithRCodes(spans) ==
    [k \in 1..Len(spans) |->
        IF is_row_label(spans[k]) /\ match_type_code("C", strip(spans[k].text))
        THEN [spans[k] EXCEPT !.text = "R" \o Tail(strip(spans[k].text))]
        ELSE spans[k]]

InitHoardTables ==
    /\ Idle("call")
    /\ pc = "coins"
    /\ args \in {[coins |-> <<SectionHeader("COINS"), ColumnHeader("Type")>>
                                \o r \o <<SectionHeader("RICHES")>>,
                  riches |-> <<SectionHeader("RICHES"), ColumnHeader("Type")>>
                                \o WithRCodes(r)
                                \o <<SectionHeader("MAGIC ITEMS")>>]
                    : r \in UnitRuns(RowUnits, MaxRowUnits)}
    /\ locals = <<>>
    /\ ret = None

\* extract_coins_table up to the rows it accumulates (lines 194-251)
CoinsRows ==
    /\ pc = "coins"
    /\ locals' = [coins |-> hoard_rows(args.coins,
                                header_bounds(args.coins, "COINS", "RICHES"),
                                "C", TRUE)]
    /\ pc' = "riches"
    /\ UNCHANGED <<args, ret>>
    /\ Frame("call")

\* extract_riches_table up to the rows it accumulates (lines 349-395)
RichesRows ==
    /\ pc = "riches"
    /\ locals' = locals @@
                 [riches |-> hoard_rows(args.riches,
                                 header_bounds(args.riches, "RICHES",
                                               "MAGIC ITEMS"),
                                 "R", FALSE)]
    /\ pc' = "rows"
    /\ UNCHANGED <<args, ret>>
    /\ Frame("call")

NextHoardTables == CoinsRows \/ RichesRows

SpecHoardTables == InitHoardTables /\ [][NextHoardTables]_vars

\* C29: on the same span sequence between the section headers, with R-codes in
\* place of C-codes, extract_riches_table accumulates the rows (label, cells)
\* that extract_coins_table accumulates: the same number of rows, the same
\* code numbers and the same cells; so a bold label that is not a type code
\* ends the current row and the cell values after it are in no row.
C29_SameRows ==
    pc = "rows" =>
        /\ Len(locals.riches) = Len(locals.coins)
        /\ \A k \in 1..Len(locals.coins) :
               /\ locals.riches[k].label = "R" \o Tail(locals.coins[k].label)
               /\ locals.riches[k].cells = locals.coins[k].cells

-----------------------------------------------------------------------------
(* Specification SpecSummaryRows: extract_magic_item_subtable, span by span *)

MaxPooledUnits == 4

PageTitle(text) == Span(text, "Winona", 500)

\* the header of the table, another header, a footnote label, a sidebar
\* header, a page title, an item name with its value and a summary cell
PooledUnits ==
    {<<SectionHeader("AMULETS")>>, <<SectionHeader("RINGS")>>,
     <<RowLabel("Encumbrance:")>>, <<SidebarMarker("Note")>>,
     <<PageTitle("Treasure")>>,
     <<Cell("Charm"), Cell("1,000")>>, <<Cell("Wards")>>}

\* the page after the table's page: a row with a value that is no number,
\* a footnote label and a cell after it
FollowingPage ==
    <<Cell("Ward"), ItalicCell("n/a"), Cell("Glows"), Cell("+1 by night"),
      RowLabel("Note:"), Cell("Lost")>>

InitSummaryRows ==
    /\ Idle("call")
    /\ pc = "bounds"
    /\ args \in {[doc |-> [len |-> Len(pages),
                           pages |-> [p \in 0..(Len(pages) - 1) |->
                                         PlacedInOrder(pages[p + 1])]],
                  page_idx |-> 0,
                  section_name |-> "AMULETS"]
                    : pages \in UNION {{<<r>>, <<r, FollowingPage>>}
                          : r \in UnitRuns(PooledUnits, MaxPooledUnits)}}
    /\ locals = <<>>
    /\ ret = None

\* lines 1100-1133: the pooled spans, the last header and the end
SubtableBounds ==
    /\ pc = "bounds"
    /\ LET all_spans == spans_of_pages(args.doc, args.page_idx,
                                       args.page_idx + 2)
           IsEnd(s) ==
               \/ is_section_header(s) /\ strip(s.text) # args.section_name
               \/ is_sidebar_header(s)
               \/ is_page_title(s)
           start == find_last(headers_named(all_spans, args.section_name))
           end == find_end([i \in 1..Len(all_spans) |-> IsEnd(all_spans[i])],
                           start[1] + 1)
       IN  IF start = None
           THEN /\ ret' = Some(<<>>)
                /\ pc' = "return"
                /\ locals' = [all_spans |-> all_spans]
           ELSE /\ locals' = [all_spans |-> all_spans, start |-> start[1],
                              i |-> 1, st |-> subtable_init,
                              table_spans |->
                                  table_spans(all_spans, start[1], end)]
                /\ pc' = "subtable loop"
                /\ UNCHANGED ret
    /\ UNCHANGED args
    /\ Frame("call")

\* one iteration of the loop at line 1156
SubtableSpan ==
    /\ pc = "subtable loop"
    /\ locals.i <= Len(locals.table_spans)
    /\ ~locals.st.stop
    /\ locals' = [locals EXCEPT
                     !.st = subtable_step(@, locals.table_spans[locals.i]),
                     !.i = @ + 1]
    /\ UNCHANGED <<pc, args, ret>>
    /\ Frame("call")

\* lines 1185-1186: the flush after the loop and the return
SubtableReturn ==
    /\ pc = "subtable loop"
    /\ locals.i > Len(locals.table_spans) \/ locals.st.stop
    /\ locals' = [locals EXCEPT !.st = subtable_flush(@)]
    /\ ret' = Some(subtable_flush(locals.st).result)
    /\ pc' = "return"
    /\ UNCHANGED args
    /\ Frame("call")

NextSummaryRows == SubtableBounds \/ SubtableSpan \/ SubtableReturn

SpecSummaryRows == InitSummaryRows /\ [][NextSummaryRows]_vars

\* the positions of the pooled spans that hold the header of the table
HeaderPositions(spans, name) ==
    {k \in 1..Len(spans) : is_header_named(spans[k], name)}

\* a span that ends the table
IsTableBoundary(span, name) ==
    \/ is_section_header(span) /\ strip(span.text) # name
    \/ is_sidebar_header(span)
    \/ is_page_title(span)
    \/ is_row_label(span)

\* the positions between the last header of the table and the first boundary
\* after it
TablePositions(spans, name) ==
    LET at == HeaderPositions(spans, name)
        last == CHOOSE k \in at : \A j \in at : j <= k
    IN  IF at = {} THEN {}
        ELSE {k \in (last + 1)..Len(spans) :
                 \A j \in (last + 1)..k : ~IsTableBoundary(spans[j], name)}

\* a step of the loop that adds the span it reads to the cells of a row
AddingCell ==
    /\ pc = "subtable loop"
    /\ locals'.st.current_cells \notin {locals.st.current_cells, <<>>}

\* a step in which flush appends a row
EmittingSummaryRow ==
    /\ pc = "subtable loop"
    /\ locals'.st.result # locals.st.result

\* C30: the pooled spans are those of the page and the page after it; a cell
\* is added to a row only from a span that lies after the LAST header of the
\* section and before the first boundary that follows it (another section
\* header, a sidebar header, a page title or a row label); each row emitted
\* comes from a run of at least 3 cells, the first its name, the second its
\* value (0 when it does not start with a number), the others joined its
\* summary; and the rows returned are the rows emitted.
C30_LastHeader ==
    /\ [][/\ AddingCell =>
               LET at == locals.start + 1 + locals.i
                   cells == locals'.st.current_cells
               IN  /\ at \in TablePositions(locals.all_spans,
                                            args.section_name)
                   /\ cells[Len(cells)] = strip(locals.all_spans[at].text)
          /\ EmittingSummaryRow =>
               LET cells == locals.st.current_cells
                   row == locals'.st.result[Len(locals'.st.result)]
               IN  /\ Len(cells) >= 3
                   /\ locals'.st.result = Append(locals.st.result, row)
                   /\ row.name = cells[1]
                   /\ row.value = subtable_value(cells[2])
                   /\ Head(cells[2]) \notin Digits => row.value = 0
                   /\ row.summary = join(SubSeq(cells, 3, Len(cells)))]_vars
    /\ [](pc \in {"subtable loop", "return"} =>
             locals.all_spans =
                 collect_spans(args.doc.pages[0])
                     \o (IF args.doc.len > 1
                         THEN collect_spans(args.doc.pages[1]) ELSE <<>>))
    /\ [](pc = "return" =>
             /\ HeaderPositions(locals.all_spans, args.section_name) = {}
                    => ret = Some(<<>>)
             /\ HeaderPositions(locals.all_spans, args.section_name) # {}
                    => ret = Some(locals.st.result))

C30_Witness ==
    /\ pc = "return"
    /\ Cardinality(HeaderPositions(locals.all_spans, args.section_name)) = 2
    /\ \E k \in 1..Len(locals.all_spans) :
           /\ k + 2 < Len(locals.all_spans)
           /\ is_header_named(locals.all_spans[k + 3], args.section_name)
           /\ \A j \in k..(k + 2) : is_cell_value(locals.all_spans[j])
    /\ ret = Some(<<[name |-> "Ward", value |-> 0,
                     summary |-> "Glows +1 by night"]>>)

-----------------------------------------------------------------------------
(* Specification SpecGemRows: extract_gem_type_table on grids of several   *)
(* rows, some without a gem name in some column                            *)

MaxGemUnits == 4

\* the section header and the six column headers
GemColumnHeads == SubSeq(GemGridHead, 1, 7)

\* two row labels and a gem name in the columns Ornamental, Fancy and
\* Gemstone, each with its left and right edge
GemRowUnits ==
    {<<[span |-> RowLabel("1"), x0 |-> 500, x1 |-> 600]>>,
     <<[span |-> RowLabel("2"), x0 |-> 500, x1 |-> 600]>>,
     <<[span |-> Cell("Agate"), x0 |-> 1000, x1 |-> 1300]>>,
     <<[span |-> Cell("Jet"), x0 |-> 2600, x1 |-> 2800]>>,
     <<[span |-> Cell("Ruby"), x0 |-> 4200, x1 |-> 4500]>>}

\* each span of a run on a line of its own below the column headers
GemLines(run) ==
    [i \in 1..Len(run) |-> PlacedAt(run[i].span, run[i].x0, run[i].x1, 4 + i)]

\* a grid of 13 rows with one gem name each
GemLongRun ==
    LET labels == <<"1", "2", "3", "4", "5", "6", "7", "8", "9", "10", "11",
                    "12", "13">>
    IN  [i \in 1..(2 * Len(labels)) |->
            IF i % 2 = 1
            THEN [span |-> RowLabel(labels[(i + 1) \div 2]),
                  x0 |-> 500, x1 |-> 600]
            ELSE [span |-> Cell("Agate"), x0 |-> 1000, x1 |-> 1300]]

InitGemRows ==
    /\ Idle("call")
    /\ pc = "gem bounds"
    /\ args \in {[page |-> GemColumnHeads \o GemLines(r)]
                    : r \in UnitRuns(GemRowUnits, MaxGemUnits)
                            \cup {GemLongRun}}
    /\ ret = None
    /\ locals = <<>>

SpecGemRows == InitGemRows /\ [][NextGem]_vars

\* the result after a step of the loop or after the return
GemResultAfter == IF pc' = "done" THEN ret'[1] ELSE locals'.st.result

\* the number of row labels read before the iteration about to run
GemRowsRead ==
    Cardinality({k \in 1..(locals.i - 1) :
                    /\ k <= Len(locals.table_spans)
                    /\ is_row_label(locals.table_spans[k])
                    /\ match_number(strip(locals.table_spans[k].text))})

\* C31: each of the five lists returned by extract_gem_type_table has at most
\* 12 entries, and the k-th entry of a category's list is the cell of the k-th
\* row label's row in the column of the category: when the k-th row is
\* flushed, each cell it has becomes entry k of the list of its column.
C31_GridAlignment ==
    /\ [][pc = "gem loop" /\ GemResultAfter # locals.st.result =>
              \A c \in DOMAIN locals.st.row_cells :
                  c < Len(categories) =>
                      LET list == GemResultAfter[categories[c + 1]]
                      IN  /\ Len(list) = GemRowsRead
                          /\ list[Len(list)] = locals.st.row_cells[c]]_vars
    /\ [](pc = "done" /\ ret # None /\ ret[1] # EmptyDict =>
              \A i \in 1..Len(categories) : Len(ret[1][categories[i]]) <= 12)

-----------------------------------------------------------------------------
(* Specification SpecGeneration: extract_generation_subtables, section by  *)
(* section                                                                 *)

MaxGenerationUnits == 4

\* three section headers, two of them with the same derived key, a range row,
\* a numbered row with an italic cell and a cell value
GenerationUnits ==
    {<<SectionHeader("ARMOUR TYPE")>>, <<SectionHeader("ENCHANTMENT")>>,
     <<SectionHeader("ARMOUR-TYPE")>>,
     <<RowLabel("1~3"), Cell("Leather")>>,
     <<RowLabel("4"), ItalicCell("+1")>>, <<Cell("Chain")>>}

\* the second page of the range: the rest of a table and one more table
GenerationFollowingPage ==
    <<Cell("Plate"), SectionHeader("ENCHANTMENT"), RowLabel("1"),
      ItalicCell("+2")>>

InitGeneration ==
    /\ Idle("call")
    /\ pc = "sections"
    /\ args \in {[doc |-> [len |-> Len(pages),
                           pages |-> [p \in 0..(Len(pages) - 1) |->
                                         PlacedInOrder(pages[p + 1])]],
                  start_page_idx |-> 0,
                  end_page_idx |-> 2]
                    : pages \in UNION {{<<r>>, <<r, GenerationFollowingPage>>}
                          : r \in UnitRuns(GenerationUnits,
                                           MaxGenerationUnits)}}
    /\ locals = <<>>
    /\ ret = None

\* lines 1208-1236: the pooled spans and the loop that splits them
GenerationSplit ==
    /\ pc = "sections"
    /\ LET all_spans == spans_of_pages(args.doc, args.start_page_idx,
                                       args.end_page_idx)
       IN  locals' = [all_spans |-> all_spans,
                      sections |-> generation_sections(all_spans, <<>>,
                                                       None, <<>>),
                      k |-> 1,
                      result |-> EmptyDict]
    /\ pc' = "rows"
    /\ UNCHANGED <<args, ret>>
    /\ Frame("call")

\* one iteration of the loop at line 1240
GenerationSection ==
    /\ pc = "rows"
    /\ locals.k <= Len(locals.sections)
    /\ locals' = [locals EXCEPT
                     !.result =
                         SetItem(@, _to_camel_case(locals.sections[locals.k][1]),
                                 _parse_generation_table_rows(
                                     locals.sections[locals.k][2])),
                     !.k = @ + 1]
    /\ UNCHANGED <<pc, args, ret>>
    /\ Frame("call")

\* line 1245
GenerationReturn ==
    /\ pc = "rows"
    /\ locals.k > Len(locals.sections)
    /\ ret' = Some(locals.result)
    /\ pc' = "return"
    /\ UNCHANGED <<args, locals>>
    /\ Frame("call")

NextGeneration == GenerationSplit \/ GenerationSection \/ GenerationReturn

SpecGeneration == InitGeneration /\ [][NextGeneration]_vars

\* the positions of the section headers among the pooled spans, in order
HeaderSequence(spans) ==
    LET at == {k \in 1..Len(spans) : is_section_header(spans[k])}
        RECURSIVE Sorted(_)
        Sorted(S) == IF S = {} THEN <<>>
                     ELSE LET least == CHOOSE k \in S : \A j \in S : k <= j
                          IN  <<least>> \o Sorted(S \ {least})
    IN  Sorted(at)

\* the sections by successive headers: the text of each header with the spans
\* up to the next header
SectionsByHeaders(spans) ==
    LET hs == HeaderSequence(spans)
    IN  [j \in 1..Len(hs) |->
            <<strip(spans[hs[j]].text),
              SubSeq(spans, hs[j] + 1,
                     IF j < Len(hs) THEN hs[j + 1] - 1 ELSE Len(spans))>>]

\* C32: extract_generation_subtables splits the pooled spans of the page range
\* by successive section headers (a header starts a section and ends the one
\* before, the spans before the first header are in no section), and the
\* mapping returned holds, for each section header, the rows of its section
\* under the key derived from its text.
C32_Sectioning ==
    /\ pc \in {"rows", "return"} =>
           locals.sections = SectionsByHeaders(locals.all_spans)
    /\ pc = "return" =>
           \A j \in 1..Len(locals.sections) :
               LET key == _to_camel_case(locals.sections[j][1])
               IN  /\ key \in DOMAIN ret[1]
                   /\ ret[1][key] =
                          _parse_generation_table_rows(locals.sections[j][2])

-----------------------------------------------------------------------------
(* Specification SpecCamel: _to_camel_case on short header texts           *)

MaxHeaderLen == 4

\* a capital and a small letter, a digit, the space, a hyphen and a slash
HeaderAlphabet == {"A", "b", "1", " ", "-", "/"}

CamelInputs ==
    Strings(HeaderAlphabet, MaxHeaderLen)
        \cup {"ARMOUR TYPE", "ARMOUR-TYPE", "Rods/Staves"}

InitCamel ==
    /\ Idle("call")
    /\ pc = "call"
    /\ args \in {[header |-> h] : h \in CamelInputs}
    /\ ret = None
    /\ locals = <<>>

ToCamelCase ==
    /\ pc = "call"
    /\ ret' = Some(_to_camel_case(args.header))
    /\ pc' = "return"
    /\ UNCHANGED <<args, locals>>
    /\ Frame("call")

NextCamel == ToCamelCase

SpecCamel == InitCamel /\ [][NextCamel]_vars

\* the words of a text, read from the left with the run being read in word:
\* the maximal runs of letters and digits when alnum_only, and else the runs
\* between spaces with every other character taken out
RECURSIVE RunsOf(_, _, _)
RunsOf(text, word, alnum_only) ==
    IF Len(text) = 0 THEN (IF word = "" THEN <<>> ELSE <<word>>)
    ELSE IF IsAlnum(Head(text))
    THEN RunsOf(Tail(text), word \o Head(text), alnum_only)
    ELSE IF alnum_only \/ IsSpace(Head(text))
    THEN (IF word = "" THEN <<>> ELSE <<word>>)
             \o RunsOf(Tail(text), "", alnum_only)
    ELSE RunsOf(Tail(text), word, alnum_only)

\* the first word in small letters, each later word with a capital first
\* character and the rest in small letters, put together
RECURSIVE CamelOf(_, _)
CamelOf(words, first) ==
    IF words = <<>> THEN ""
    ELSE (IF first THEN lower(Head(words))
          ELSE UpperChar(Head(Head(words))) \o lower(Tail(Head(words))))
         \o CamelOf(Tail(words), FALSE)

\* C33 (as stated): the key is the header with every character other than
\* letters, digits and spaces removed, split on whitespace, the first word
\* lower-cased, each later word capitalized, concatenated.
C33_AsStated ==
    pc = "return" => ret = Some(CamelOf(RunsOf(args.header, "", FALSE), TRUE))

\* C33 (amended): every character other than letters, digits and whitespace
\* separates words as a space does: the words are the maximal runs of letters
\* and digits, the key is the first word lower-cased followed by each later
\* word capitalized, and a header without a letter or digit gives the header
\* itself, lower-cased; "ARMOUR TYPE" gives "armourType".
C33_CamelCase ==
    pc = "return" =>
        LET words == RunsOf(args.header, "", TRUE)
        IN  /\ words # <<>> => ret = Some(CamelOf(words, TRUE))
            /\ words = <<>> => ret = Some(lower(args.header))
            /\ args.header = "ARMOUR TYPE" => ret = Some("armourType")

C33_Witness ==
    /\ pc = "return"
    /\ args.header = "ARMOUR-TYPE"
    /\ ret = Some("armourType")

-----------------------------------------------------------------------------
(* Specification SpecStatValues: _parse_bestiary_spans, span by span, on a *)
(* name and a meta line followed by up to MaxStatUnits spans: a stat       *)
(* label, a span in the font of stat values at 9.5pt or at 10.8pt with a   *)
(* word or a number, an ability label or a section header                  *)

MaxStatUnits == 3

StatValueAt(text, size) == Span(text, "TheAntiquaB-W5Plain", size)

StatUnits ==
    {<<BigStatLabel("Level")>>, <<BigStatLabel("Speech")>>,
     <<StatValueAt("3", 95)>>, <<StatValueAt("12", 108)>>,
     <<StatValueAt("Shy", 108)>>, <<StatValueAt("of men", 95)>>,
     <<AbilityLabel("Dark sight:")>>, <<SectionHeader("ENCOUNTERS")>>}

InitStatValues ==
    /\ Idle("call")
    /\ pc = "parse loop"
    /\ args \in {[creature |-> BestiaryCreature("Goblin"),
                  spans |-> <<CreatureName("Goblin"),
                              MetaLine("Small fairy")>> \o r] :
                    r \in UnitRuns(StatUnits, MaxStatUnits)}
    /\ locals = [st |-> bestiary_locals(BestiaryCreature("Goblin")), i |-> 1]
    /\ ret = None

SpecStatValues == InitStatValues /\ [][NextStatBlock]_vars

\* the loop reads a span in the role of a stat value while a stat is open
ReadingStatValue ==
    /\ pc = "parse loop" /\ locals.i <= Len(args.spans)
    /\ locals'.i = locals.i + 1
    /\ locals.st.state = "stats" /\ locals.st.current_stat_label # None
    /\ is_stat_value_font(args.spans[locals.i])

\* a step closes the open stat, which has values
ClosingStat ==
    /\ pc = "parse loop"
    /\ locals.st.state = "stats" /\ locals.st.current_stat_label # None
    /\ locals.st.current_stat_values # <<>>
    /\ \/ pc' = "done"
       \/ locals'.st.current_stat_values = <<>>

\* the value a creature record has for a stat label
StatOf(creature, label) ==
    IF label \in ENRICHMENT_FIELDS THEN creature[lower(label)]
    ELSE creature.stats[lower(label)]

\* C34: in the stats state with an open stat label, every span in the role
\* of a stat value is appended to the values of that stat, whatever its
\* text, and the value stored for the stat is the space-join of its values
\* in stream order.
C34_StatValues ==
    /\ [][ReadingStatValue =>
             /\ locals'.st.current_stat_label = locals.st.current_stat_label
             /\ locals'.st.current_stat_values =
                    Append(locals.st.current_stat_values,
                           strip(args.spans[locals.i].text))]_vars
    /\ [][ClosingStat =>
             StatOf(IF pc' = "done" THEN ret'[1] ELSE locals'.st.creature,
                    locals.st.current_stat_label[1])
                 = join(locals.st.current_stat_values)]_vars

-----------------------------------------------------------------------------
(* Specification SpecCleanUp: _parse_bestiary_spans, span by span, on a    *)
(* name followed by up to MaxCleanUnits units whose texts end in a hyphen  *)
(* or hold a soft hyphen: a description, a meta line, a stat, a stat       *)
(* field, an ability, a section with one entry, or a Names line            *)

MaxCleanUnits == 3

SoftWrapped(text, rest) == text \o SOFT_HYPHEN \o rest

CleanUnits ==
    {<<Description("half-"), Description(SoftWrapped("elf", "ish"))>>,
     <<MetaLine("Small fairy")>>,
     <<BigStatLabel("Level"), StatValue("3-"),
       StatValue(SoftWrapped("4", ""))>>,
     <<BigStatLabel("Speech"), StatValue("sun-"),
       StatValue(SoftWrapped("lit", ""))>>,
     <<AbilityLabel("Dark sight:"), BodyText("well-"),
       BodyText(SoftWrapped("kno", "wn"))>>,
     <<SectionHeader("ENCOUNTERS"), EntryNumber("1"), BodyText("wood-"),
       BodyText(SoftWrapped("la", "nd"))>>,
     <<BodyText("Names: Al-"), BodyText(SoftWrapped("fr", "ed"))>>}

InitCleanUp ==
    /\ Idle("call")
    /\ pc = "parse loop"
    /\ args \in {[creature |-> BestiaryCreature("Goblin"),
                  spans |-> <<CreatureName("Goblin")>> \o r] :
                    r \in UnitRuns(CleanUnits, MaxCleanUnits)}
    /\ locals = [st |-> bestiary_locals(BestiaryCreature("Goblin")), i |-> 1]
    /\ ret = None

SpecCleanUp == InitCleanUp /\ [][NextStatBlock]_vars

\* a text without soft hyphens and without a hyphen followed by a space
CleanedUp(text) == ~Contains(text, SOFT_HYPHEN) /\ ~Contains(text, "- ")

\* the text fields of a creature record
TextFields(creature) ==
    {creature.description, creature.names}
    \cup {creature[key] : key \in EnrichmentKeys}
    \cup {creature.stats[key] : key \in DOMAIN creature.stats}
    \cup {creature.abilities[k].text : k \in 1..Len(creature.abilities)}
    \cup UNION {{creature.sections[s][k].text :
                    k \in 1..Len(creature.sections[s])} :
                   s \in DOMAIN creature.sections}

\* C35: no text field of the record a parse leaves (description, stat and
\* stat-field values, ability texts, section entry texts, names) holds a
\* soft hyphen or a hyphen followed by whitespace.
C35_CleanText ==
    pc = "done" => \A text \in TextFields(ret[1]) : CleanedUp(text)

-----------------------------------------------------------------------------
(* Specification SpecSectionEntries: _parse_bestiary_spans, span by span,  *)
(* on a name, a meta line and a section header followed by up to           *)
(* MaxEntryUnits spans: an entry number, bold text under 9pt, body text, a *)
(* bold-italic reference, a further section header or a Names line         *)

MaxEntryUnits == 3

BoldSmall(text) == Span(text, "TheAntiquaB-W7Bold", 85)

BoldItalicRef(text) == Span(text, "TheAntiquaB-W7BoldItalic", 85)

EntryUnits ==
    {<<EntryNumber("1")>>, <<EntryNumber("2")>>,
     <<BoldSmall("2d3 hounds")>>, <<BodyText("Goblin patrol")>>,
     <<BoldItalicRef("p35")>>, <<SectionHeader("LAIRS")>>,
     <<BodyText("Names: Al")>>}

InitSectionEntries ==
    /\ Idle("call")
    /\ pc = "parse loop"
    /\ args \in {[creature |-> BestiaryCreature("Goblin"),
                  spans |-> <<CreatureName("Goblin"), MetaLine("Small fairy"),
                              SectionHeader("ENCOUNTERS")>> \o r] :
                    r \in UnitRuns(EntryUnits, MaxEntryUnits)}
    /\ locals = [st |-> bestiary_locals(BestiaryCreature("Goblin")), i |-> 1]
    /\ ret = None

SpecSectionEntries == InitSectionEntries /\ [][NextStatBlock]_vars

\* the roles of a span in the section state
IsRollLabel(span) ==
    /\ is_ability_label_font(span) /\ span.size < 90
    /\ isdigit(strip(span.text))

IsBoldInEntry(span) ==
    /\ is_ability_label_font(span) /\ span.size < 90
    /\ ~isdigit(strip(span.text))

\* the spans read since the header of the open section
OpenSectionSpans ==
    LET read == SubSeq(args.spans, 1, locals.i - 1)
        header == CHOOSE h \in 1..Len(read) :
                      /\ is_section_header_font(read[h])
                      /\ \A k \in (h + 1)..Len(read) :
                             ~is_section_header_font(read[k])
    IN  SubSeq(read, header + 1, Len(read))

\* the texts of the spans between the roll label at p and the next one
TextsAfter(seg, p) ==
    LET later == {q \in (p + 1)..Len(seg) : IsRollLabel(seg[q])}
        next == IF later = {} THEN Len(seg) + 1
                ELSE CHOOSE q \in later : \A r \in later : q <= r
    IN  [k \in 1..(next - p - 1) |-> strip(seg[p + k].text)]

\* the entries printed in a run of spans: one per roll label with text
\* after it, in the order of the labels
EntriesOf(seg) ==
    LET HasEntry(p) == IsRollLabel(seg[p]) /\ TextsAfter(seg, p) # <<>>
        labels == SelectSeq([p \in 1..Len(seg) |-> p], HasEntry)
    IN  [j \in 1..Len(labels) |->
            [roll |-> strip(seg[labels[j]].text),
             text |-> bestiary_clean(TextsAfter(seg, labels[j]))]]

\* the entries the parser holds for the open section: those gathered and
\* the open one when it has text
HeldEntries(st) ==
    st.current_section_entries
        \o (IF st.current_entry_num # None /\ st.current_entry_text # <<>>
            THEN <<[roll |-> st.current_entry_num[1],
                    text |-> bestiary_clean(st.current_entry_text)]>>
            ELSE <<>>)

InSection == pc = "parse loop" /\ locals.st.state = "section"

\* a step closes the open section, which holds entries
ClosingSection ==
    /\ InSection /\ HeldEntries(locals.st) # <<>>
    /\ \/ pc' = "done"
       \/ /\ locals'.i = locals.i + 1
          /\ \/ is_section_header_font(args.spans[locals.i])
             \/ locals'.st.state # "section"

\* C36: in the section state the entries held are, in stream order, one per
\* roll label (bold under 9pt, digits) with the text of the spans between
\* that label and the next; bold text under 9pt that is not digits starts
\* no entry and is appended to the text of the open entry; and the entries
\* held are those emitted when the section is closed.
C36_SectionEntries ==
    /\ [](InSection => HeldEntries(locals.st) = EntriesOf(OpenSectionSpans))
    /\ [][/\ InSection /\ locals'.i = locals.i + 1
          /\ IsBoldInEntry(args.spans[locals.i])
          => /\ locals'.st.current_entry_num = locals.st.current_entry_num
             /\ locals'.st.current_section_entries
                    = locals.st.current_section_entries
             /\ locals'.st.current_entry_text
                    = Append(locals.st.current_entry_text,
                             strip(args.spans[locals.i].text))]_vars
    /\ [][ClosingSection =>
             (IF pc' = "done" THEN ret'[1] ELSE locals'.st.creature)
                 .sections[locals.st.current_section_name[1]]
                 = HeldEntries(locals.st)]_vars

C36_Witness ==
    /\ pc = "done" /\ Len(args.spans) >= 5
    /\ SubSeq(args.spans, 4, 5)
           = <<EntryNumber("1"), BoldSmall("2d3 hounds")>>
    /\ "ENCOUNTERS" \in DOMAIN ret[1].sections
    /\ ret[1].sections["ENCOUNTERS"]
           = <<[roll |-> "1", text |-> "2d3 hounds Goblin patrol"]>>

-----------------------------------------------------------------------------
(* Specification SpecSideBySide: extract_side_by_side_d20_table, span by   *)
(* span, on the section header and the column header followed by up to     *)
(* MaxSideUnits spans: a numeric row label, a cell value, a further column *)
(* header or a footnote label                                              *)

MaxSideUnits == 4

SideUnits ==
    {<<RowLabel("1")>>, <<RowLabel("12")>>,
     <<Cell("Gold")>>, <<Cell("Jade")>>,
     <<ColumnHeader("d20")>>, <<RowLabel("*")>>}

InitSideBySide ==
    /\ Idle("call")
    /\ pc = "bounds"
    /\ args \in {[spans |-> <<SectionHeader("PRECIOUS MATERIALS"),
                              ColumnHeader("d20")>> \o r,
                  section_name |-> "PRECIOUS MATERIALS"]
                    : r \in UnitRuns(SideUnits, MaxSideUnits)}
    /\ locals = <<>>
    /\ ret = None

\* lines 990-1012: the bounds of the table and the locals of the loop
SideBySideBounds ==
    /\ pc = "bounds"
    /\ LET IsEnd(s) == \/ is_section_header(s)
                       \/ is_subsection_title(s)
                       \/ is_item_subsection_title(s)
                       \/ is_sidebar_header(s)
           bounds == find_bounds(
                         headers_named(args.spans, args.section_name),
                         no_span(args.spans),
                         [i \in 1..Len(args.spans) |-> IsEnd(args.spans[i])])
       IN  IF bounds.start = None
           THEN /\ ret' = Returned(<<>>)
                /\ pc' = "return"
                /\ UNCHANGED locals
           ELSE /\ locals' = [i |-> 1, st |-> side_by_side_init,
                              table_spans |-> table_spans(args.spans,
                                                  bounds.start[1], bounds.end)]
                /\ pc' = "table loop"
                /\ UNCHANGED ret
    /\ UNCHANGED args
    /\ Frame("call")

\* one iteration of the loop at line 1027
SideBySideSpan ==
    /\ pc = "table loop"
    /\ locals.i <= Len(locals.table_spans)
    /\ ~locals.st.stop
    /\ locals' = [locals EXCEPT
                     !.st = side_by_side_step(@, locals.table_spans[locals.i]),
                     !.i = @ + 1]
    /\ UNCHANGED <<pc, args, ret>>
    /\ Frame("call")

\* lines 1051-1052: the flush after the loop and the return
SideBySideReturn ==
    /\ pc = "table loop"
    /\ locals.i > Len(locals.table_spans) \/ locals.st.stop
    /\ locals' = [locals EXCEPT !.st = side_by_side_flush(@)]
    /\ ret' = Returned(side_by_side_flush(locals.st).result)
    /\ pc' = "return"
    /\ UNCHANGED args
    /\ Frame("call")

NextSideBySide == SideBySideBounds \/ SideBySideSpan \/ SideBySideReturn

SpecSideBySide == InitSideBySide /\ [][NextSideBySide]_vars

IsNumericLabel(span) == is_row_label(span) /\ match_number(strip(span.text))

IsFootnoteLabel(span) == is_row_label(span) /\ ~match_number(strip(span.text))

\* the printed pairs of a table: with the column headers left out and up to
\* the footnote label, one row per numeric label whose next span is a cell
\* value
PrintedPairs(spans) ==
    LET IsContent(s) == ~is_column_header(s)
        content == SelectSeq(spans, IsContent)
        notes == {k \in 1..Len(content) : IsFootnoteLabel(content[k])}
        last == IF notes = {} THEN Len(content)
                ELSE (CHOOSE k \in notes : \A n \in notes : k <= n) - 1
        IsPair(k) == /\ k < last
                     /\ IsNumericLabel(content[k])
                     /\ is_cell_value(content[k + 1])
        labels == SelectSeq([k \in 1..last |-> k], IsPair)
    IN  [j \in 1..Len(labels) |->
            [roll |-> int(strip(content[labels[j]].text)),
             value |-> strip(content[labels[j] + 1].text)]]

\* the loop reads a span
ReadingSideSpan ==
    /\ pc = "table loop" /\ pc' = "table loop"
    /\ locals'.i = locals.i + 1

SideSpan == locals.table_spans[locals.i]

-----------------------------------------------------------------------------
(* Specification SpecDropCap: the loop of extract_appendix_creatures, span *)
(* by span, on up to MaxNameUnits units: a creature (a name span, a meta   *)
(* line and a stat), a drop capital, a body text span or a section title   *)

MaxNameUnits == 3

CreatureUnit(name) ==
    <<AppendixName(name), MetaLine("Small animal"), StatLabel("Level"),
      StatValue("2")>>

NameUnits ==
    {CreatureUnit("ANT, GIANT"), CreatureUnit("MOLE"),
     <<DropCap("A")>>, <<DropCap("M")>>,
     <<BodyText("Common folk")>>, <<SectionTitle("Animals")>>}

InitDropCap ==
    /\ Idle("call")
    /\ pc = "appendix loop"
    /\ args \in {[spans |-> r, section_name |-> "Animals"] :
                    r \in UnitRuns(NameUnits, MaxNameUnits)}
    /\ locals = [st |-> appendix_locals, i |-> 1]
    /\ ret = None

\* one iteration of the loop over all_spans
AppendixSpan ==
    /\ pc = "appendix loop"
    /\ locals.i <= Len(args.spans)
    /\ locals' = [st |-> appendix_step(locals.st, args.spans[locals.i],
                                       args.section_name),
                  i |-> locals.i + 1]
    /\ UNCHANGED <<pc, args, ret>>
    /\ Frame("call")

\* the save of the last creature and the return
AppendixReturn ==
    /\ pc = "appendix loop"
    /\ locals.i > Len(args.spans)
    /\ ret' = Some(appendix_save_creature(locals.st, args.section_name)
                       .creatures)
    /\ pc' = "done"
    /\ UNCHANGED <<args, locals>>
    /\ Frame("call")

NextDropCap == AppendixSpan \/ AppendixReturn

SpecDropCap == InitDropCap /\ [][NextDropCap]_vars

\* spans the loop passes over in every state
IsPassedOver(span) ==
    \/ strip(span.text) = ""
    \/ is_page_header_font(span)
    \/ is_page_number_font(span) /\ isdigit(strip(span.text))
    \/ is_section_title_font(span)
    \/ is_description_font(span)

\* the drop capital printed right before position p, if any: the last span
\* before p that is not passed over, when it is a drop capital
DropCapBefore(spans, p) ==
    LET before == {q \in 1..(p - 1) : ~IsPassedOver(spans[q])}
        q == CHOOSE b \in before : \A c \in before : c <= b
    IN  IF before # {} /\ is_drop_cap_font(spans[q])
        THEN Some(strip(spans[q].text)) ELSE None

\* the name of the creature whose name span is at position p
NameAt(spans, p) ==
    LET text == strip(spans[p].text)
        cap == DropCapBefore(spans, p)
    IN  IF cap # None /\ upper(Char(text, 1)) = cap[1]
        THEN _title_case_name(cap[1] \o SubSeq(text, 2, Len(text)))
        ELSE _title_case_name(text)

NamePositions(spans) ==
    LET IsName(p) == ~IsPassedOver(spans[p])
                     /\ ~is_drop_cap_font(spans[p])
                     /\ is_appendix_creature_name_font(spans[p])
    IN  SelectSeq([p \in 1..Len(spans) |-> p], IsName)

-----------------------------------------------------------------------------
(* Specification SpecMortalNames: the two passes and the merge of          *)
(* extract_mortals, span by span, on the spans of a section of up to       *)
(* MaxMortalUnits units: a named entry with a description, a named entry   *)
(* without one, the sidebar marker, a meta line or a stat line             *)

MaxMortalUnits == 4

MortalUnits ==
    {<<AppendixName("ANGLER"), BodyText("Found by the water")>>,
     <<AppendixName("BEGGAR")>>,
     <<SidebarMarker("Everyday Mortal")>>,
     <<MetaLine("Small/Medium mortal")>>,
     <<StatLabel("Level"), StatValue("1")>>}

InitMortalNames ==
    /\ Idle("call")
    /\ pc = "pass 1"
    /\ args \in {[all_spans |-> s] :
                    s \in UnitRuns(MortalUnits, MaxMortalUnits)}
    /\ locals = [i |-> 1, mutated |-> 0, st |-> mortals_locals(args.all_spans)]
    /\ ret = None

SpecMortalNames == InitMortalNames /\ [][NextMortalPasses]_vars

\* the names of the section: the text of each appendix creature name span,
\* in title case, in stream order
SectionNames(spans) ==
    LET names == SelectSeq(spans, IsAppendixName)
    IN  [k \in 1..Len(names) |-> _title_case_name(strip(names[k].text))]

HasSharedBlock(spans) == \E k \in 1..Len(spans) : IsSidebarMarker(spans[k])

\* C39: the records returned are one per appendix creature name span, in
\* stream order, whatever the mortal has gathered and wherever its name
\* span lies; without a shared block no record has a meta line or stats.
C39_OnePerName ==
    pc = "return" =>
        /\ [k \in 1..Len(ret) |-> ret[k].name] = SectionNames(args.all_spans)
        /\ ~HasSharedBlock(args.all_spans) =>
               \A k \in 1..Len(ret) :
                   "meta" \notin DOMAIN ret[k] /\ "stats" \notin DOMAIN ret[k]

\* Beggar, with nothing after its name, then the marker and Angler, whose
\* name span is in the skip zone
C39_Witness ==
    /\ pc = "return"
    /\ args.all_spans = <<AppendixName("BEGGAR"),
                          SidebarMarker("Everyday Mortal"),
                          AppendixName("ANGLER"),
                          BodyText("Found by the water")>>
    /\ [k \in 1..Len(ret) |-> ret[k].name] = <<"Beggar", "Angler">>

-----------------------------------------------------------------------------
(* Specification SpecAppendixRanges: find_appendix_ranges, page by page    *)
(* and name by name, on documents whose appendix has up to MaxTitlePages   *)
(* pages, each the title page of one of three sections or a page without   *)
(* a section title                                                         *)

MaxTitlePages == 4

AppendixTitlePage(name) ==
    PlacedInOrder(<<SectionTitle(name), BodyText("Common folk")>>)

AppendixPages ==
    {AppendixTitlePage("Animals"), AppendixTitlePage("Adventurers"),
     AppendixTitlePage("Everyday Mortals"),
     PlacedInOrder(<<BodyText("Common folk")>>)}

\* a document with blank pages up to the appendix
AppendixBook(appendix) ==
    [len |-> APPENDIX_FIRST + Len(appendix),
     pages |-> [p \in 0..(APPENDIX_FIRST + Len(appendix) - 1) |->
                   IF p >= APPENDIX_FIRST
                   THEN appendix[p - APPENDIX_FIRST + 1]
                   ELSE BlankPage]]

RECURSIVE PageRuns(_)
PageRuns(n) ==
    IF n = 0 THEN {<<>>}
    ELSE LET shorter == PageRuns(n - 1)
         IN  shorter \cup {Append(r, page) :
                              r \in shorter, page \in AppendixPages}

InitAppendixRanges ==
    /\ Idle("call")
    /\ pc = "title pages"
    /\ args \in {[doc |-> AppendixBook(r)] : r \in PageRuns(MaxTitlePages)}
    /\ locals = [page_num |-> APPENDIX_FIRST, i |-> 1,
                 sections |-> EmptyDict, section_order |-> <<>>,
                 ranges |-> EmptyDict]
    /\ ret = None

\* one iteration of the loop over the pages
RangesPage ==
    /\ pc = "title pages"
    /\ locals.page_num < min(APPENDIX_LAST, args.doc.len)
    /\ LET first == first_section_title_span(
                        collect_spans(args.doc.pages[locals.page_num]))
           name == strip(first[1].text)
       IN  locals' =
               IF first # None /\ name \in APPENDIX_TITLES
               THEN [locals EXCEPT
                        !.sections = SetItem(@, name, locals.page_num),
                        !.section_order = Append(@, name),
                        !.page_num = @ + 1]
               ELSE [locals EXCEPT !.page_num = @ + 1]
    /\ UNCHANGED <<pc, args, ret>>
    /\ Frame("call")

\* the end of the loop over the pages
RangesPagesEnd ==
    /\ pc = "title pages"
    /\ locals.page_num >= min(APPENDIX_LAST, args.doc.len)
    /\ pc' = "build ranges"
    /\ UNCHANGED <<args, locals, ret>>
    /\ Frame("call")

\* one iteration of the loop over section_order
RangesBuild ==
    /\ pc = "build ranges"
    /\ locals.i <= Len(locals.section_order)
    /\ LET name == locals.section_order[locals.i]
           start == locals.sections[name]
           end == IF locals.i < Len(locals.section_order)
                  THEN locals.sections[locals.section_order[locals.i + 1]]
                  ELSE args.doc.len
       IN  locals' = [locals EXCEPT
                         !.ranges = SetItem(@, name, <<start, end>>),
                         !.i = @ + 1]
    /\ UNCHANGED <<pc, args, ret>>
    /\ Frame("call")

RangesReturn ==
    /\ pc = "build ranges"
    /\ locals.i > Len(locals.section_order)
    /\ ret' = Some(locals.ranges)
    /\ pc' = "return"
    /\ UNCHANGED <<args, locals>>
    /\ Frame("call")

NextAppendixRanges ==
    RangesPage \/ RangesPagesEnd \/ RangesBuild \/ RangesReturn

SpecAppendixRanges == InitAppendixRanges /\ [][NextAppendixRanges]_vars

\* the start pages of the located sections after the page `start`
LaterStarts(ranges, start) ==
    {ranges[name][1] : name \in {n \in DOMAIN ranges : ranges[n][1] > start}}

\* C40: every located section has a range that starts before it ends, the
\* ranges of two sections do not overlap, each range ends at the start page
\* of the next located section in page order, and the last one ends at the
\* page count, also when a section title is found on more than one page.
C40_Ranges ==
    pc = "return" =>
        LET ranges == ret[1]
        IN  /\ ranges = find_appendix_ranges(args.doc)
            /\ \A name \in DOMAIN ranges :
                   /\ ranges[name][1] < ranges[name][2]
                   /\ LET later == LaterStarts(ranges, ranges[name][1])
                      IN  ranges[name][2] =
                              IF later = {} THEN args.doc.len
                              ELSE CHOOSE s \in later :
                                       \A t \in later : s <= t
            /\ \A a, b \in DOMAIN ranges :
                   a # b => \/ ranges[a][2] <= ranges[b][1]
                            \/ ranges[b][2] <= ranges[a][1]

====
